---- MODULE Spec2Model ----
(***************************************************************************)
(* A model of the django-mongodb backend: the DatabaseWrapper's lazy       *)
(* connection (base.py), the insert / update / delete compilers            *)
(* (compiler.py) and the EmbeddedModelField conversions                    *)
(* (fields/embedded_model.py).                                             *)
(***************************************************************************)
EXTENDS Integers, Sequences, FiniteSets, TLC

(***************************************************************************)
(* Bounds of the model.                                                    *)
(***************************************************************************)
\* MongoClient objects one wrapper may create before the model stops connecting
MaxClients == 3
\* last reading of the clock
MaxClock == 3
\* fields of a saved model besides its primary key
MaxFields == 2
\* objects of one insert (bulk_create) batch
MaxObjs == 2
\* execute_sql calls on one InsertQuery (the first and its retries)
MaxInserts == 2
\* (field, value) pairs of one update
MaxValues == 2
\* related updates (parents' collections) of one update
MaxRelated == 2
\* execute_sql / build_query calls on one compiler's query
MaxCompilerCalls == 2
\* names in a lookup path
MaxPath == 4
\* queries run on a queryset
MaxQueries == 2
\* keys of a chain of key transforms
MaxKeys == 4
\* entries of an ordering
MaxOrdering == 3
\* low_mark of a sliced query
MaxMark == 2
\* documents a cursor returns
MaxDocs == 3
\* chunk_size of execute_sql
MaxChunk == 2
\* indexes a model declares
MaxIndexes == 2
\* elements of a list given to an array field
MaxItems == 2
\* the size an array field is given
MaxSize == 2
\* depth of nested __getattr__ / _connect frames at which RecursionError is raised
RecursionLimit == 6

(***************************************************************************)
(* DatabaseWrapper (src/django_mongodb/base.py)                            *)
(***************************************************************************)
VARIABLES
    settings,     \* settings_dict: NAME non-empty?, USER and PASSWORD both set?
    connected,    \* self.connected
    connection,   \* self.connection: Absent, or the id of the MongoClient
    database,     \* self.database: Absent, or the id of the client it came from
    clients,      \* number of MongoClient objects created so far
    sent,         \* number of connection_created signals sent so far
    receiver,     \* is the test's receiver registered on connection_created?
    data,         \* data["database"] as recorded by the receiver (Absent: no key)
    last          \* what the last operation did and returned

wvars == <<settings, connected, connection, database, clients, sent, receiver, data, last>>

\* EmbeddedModelField (src/django_mongodb/fields/embedded_model.py)
VARIABLES
    obj,          \* the value of parent.simple in memory (a Python value)
    stored,       \* the value of the field in the stored document, or Unsaved
    elast         \* what the last operation on the field did and returned

evars == <<obj, stored, elast>>

\* the clock that timezone.now() reads
VARIABLE now

\* SQLInsertCompiler (src/django_mongodb/compiler.py)
VARIABLES
    ifields,      \* query.fields of the insert
    iobjs,        \* query.objs: the model instances of the batch, in memory
    icoll,        \* the documents of the collection, in insertion order
    icalls,       \* number of execute_sql calls made
    ilast         \* what the last execute_sql did and returned

ivars == <<ifields, iobjs, icoll, icalls, ilast>>

\* SQLCompiler, SQLUpdateCompiler, SQLDeleteCompiler (src/django_mongodb/compiler.py)
VARIABLES
    cquery,       \* self.query of the compiler
    colls,        \* the documents of each collection
    ccalls,       \* number of calls made on the compiler
    clast         \* what the last call did and returned

cvars == <<cquery, colls, ccalls, clast>>

\* the fields (src/django_mongodb/fields, src/django_mongodb_backend/fields)
VARIABLES
    mfield,       \* a field object, or NoField before one is constructed
    flast         \* what the last call on the field did and returned

fvars == <<mfield, flast>>

\* a filter through embedded fields (src/django_mongodb/fields/embedded_model.py)
VARIABLES
    lroot,        \* the model whose manager is filtered
    lpath,        \* the names of the lookup path
    lqs,          \* the queryset filter() returned, or NoQuerySet
    lqueries,     \* the queries run so far
    llast         \* what the last call did

lvars == <<lroot, lpath, lqs, lqueries, llast>>

\* a filter on the elements of an array
\* (src/django_mongodb_backend/fields/embedded_model_array.py)
VARIABLES
    mdoc,         \* a document of the collection
    mlast         \* the last filter and whether the document matched

mvars == <<mdoc, mlast>>

\* a form field over a formset (src/django_mongodb_backend/forms/fields)
VARIABLES
    ffield,       \* the form field: its class, model and formset class
    fvalue,       \* the value submitted: NotSubmitted or the forms
    fclean        \* what the last clean() raised and returned

gvars == <<ffield, fvalue, fclean>>

\* the system check of the indexes (src/django_mongodb_backend/checks.py)
VARIABLES
    kmodels,      \* the models of the apps, each with its indexes
    kdatabases,   \* the databases the checks are run for, or NoDatabases
    krouter,      \* the (database, model) pairs the router refuses
    kconnections, \* the features of the connection of each database
    klast         \* the last run of the checks and what it returned

kvars == <<kmodels, kdatabases, krouter, kconnections, klast>>

\* a select compiler that executes its query (src/django_mongodb/compiler.py)
VARIABLES
    squery,       \* the query of the compiler
    srows,        \* the documents the cursor of the query returns, in order
    sgen,         \* the generator execute_sql returned and what it yielded
    slast         \* the last call: its arguments, what it returned and read

svars == <<squery, srows, sgen, slast>>

\* a compiler that orders its query (src/django_mongodb/compiler.py)
VARIABLES
    oquery,       \* the attributes of the query that _get_ordering reads
    olast         \* the last call of _get_ordering and what it returned

ovars == <<oquery, olast>>

\* a widget that reads a submission (src/django_mongodb_backend/forms/fields)
VARIABLES
    dwidget,      \* the module of the MultipleEmbeddedModelWidget
    ddata,        \* the submitted data: a value for each key
    dname,        \* the name of the field the widget belongs to
    dlast         \* the last call on the widget and what it returned

dvars == <<dwidget, ddata, dname, dlast>>

\* everything but the wrapper
others == <<evars, now, ivars, cvars, fvars, lvars, mvars, gvars, kvars, svars, ovars, dvars>>

\* an instance attribute that is not set (deleted with `del`)
Absent == 0

NoExc == "none"
ImproperlyConfiguredAuth == "ImproperlyConfigured: Invalid username or password."
ImproperlyConfiguredName == "ImproperlyConfigured: settings.DATABASES is missing the \"NAME\" value."

Attrs == {"connection", "database", "other"}

\* what database.authenticate(user, password) does: the driver answers True or
\* False, or raises
AuthAnswers == {"True", "False", "raises"}

\* the wrapper's instance state as one value
WState == [connected |-> connected, connection |-> connection, database |-> database,
           clients |-> clients, sent |-> sent, data |-> data]

NoSend == [sent |-> FALSE, connected |-> FALSE, connection |-> Absent, database |-> Absent]

SendAt(s) == [sent |-> TRUE, connected |-> s.connected, connection |-> s.connection,
              database |-> s.database]

Outcome(s, exc, value, atSend) == [s |-> s, exc |-> exc, value |-> value, atSend |-> atSend]

HasAttr(s, attr) ==
    CASE attr = "connection" -> s.connection # Absent
      [] attr = "database" -> s.database # Absent
      [] OTHER -> FALSE

AttrValue(s, attr) == IF attr = "connection" THEN s.connection ELSE s.database

RECURSIVE ReadAttr(_, _, _, _)
RECURSIVE GetAttr(_, _, _, _)
RECURSIVE Connect(_, _, _)

\* the test's receiver: data["database"] = connection.database
Receiver(s, auth, depth) ==
    LET r == ReadAttr(s, "database", auth, depth + 1)
    IN  IF r.exc # NoExc THEN r
        ELSE Outcome([r.s EXCEPT !.data = r.value], NoExc, Absent, r.atSend)

\* the tail of _connect: set connected, then send connection_created
ConnectFinish(s, auth, depth) ==
    LET s1 == [s EXCEPT !.connected = TRUE]
        s2 == [s1 EXCEPT !.sent = @ + 1]
    IN  IF receiver
        THEN LET r == Receiver(s2, auth, depth)
             IN  Outcome(r.s, r.exc, Absent, SendAt(s2))
        ELSE Outcome(s2, NoExc, Absent, SendAt(s2))

\* DatabaseWrapper._connect; auth is what database.authenticate() answers
Connect(s, auth, depth) ==
    IF depth > RecursionLimit
    THEN Outcome(s, "RecursionError", Absent, NoSend)
    ELSE
    LET s1 == [s EXCEPT !.clients = @ + 1, !.connection = s.clients + 1]
        s2 == IF settings.NAME THEN [s1 EXCEPT !.database = s1.connection] ELSE s1
    IN  IF settings.USER
        THEN LET r == ReadAttr(s2, "database", auth, depth)
             IN  IF r.exc # NoExc THEN r
                 ELSE IF auth = "raises"
                 THEN Outcome(r.s, "OperationFailure", Absent, r.atSend)
                 ELSE IF auth = "False"
                 THEN Outcome(r.s, ImproperlyConfiguredAuth, Absent, r.atSend)
                 ELSE ConnectFinish(r.s, auth, depth)
        ELSE ConnectFinish(s2, auth, depth)

\* DatabaseWrapper.__getattr__: called only when the attribute is missing
GetAttr(s, attr, auth, depth) ==
    IF attr \in {"connection", "database"}
    THEN IF s.connected
         THEN Outcome(s, "AssertionError", Absent, NoSend)
         ELSE LET c == Connect(s, auth, depth + 1)
              IN  IF c.exc # NoExc THEN c
                  ELSE LET r == ReadAttr(c.s, attr, auth, depth)
                       IN  Outcome(r.s, r.exc, r.value, c.atSend)
    ELSE Outcome(s, "AttributeError", Absent, NoSend)

\* Python attribute lookup: the instance attribute, else __getattr__
ReadAttr(s, attr, auth, depth) ==
    IF HasAttr(s, attr)
    THEN Outcome(s, NoExc, AttrValue(s, attr), NoSend)
    ELSE GetAttr(s, attr, auth, depth + 1)

\* DatabaseWrapper.close
CloseOutcome(s) ==
    IF s.connected
    THEN IF s.connection = Absent
         THEN Outcome(s, "AttributeError", Absent, NoSend)
         ELSE LET s1 == [s EXCEPT !.connection = Absent]
              IN  IF s1.database = Absent
                  THEN Outcome(s1, "AttributeError", Absent, NoSend)
                  ELSE Outcome([s1 EXCEPT !.database = Absent, !.connected = FALSE],
                               NoExc, Absent, NoSend)
    ELSE Outcome(s, NoExc, Absent, NoSend)

\* mutant of ConnectionParamsOutcome: NAME is not validated
ConnectionParamsUnchecked(s) == Outcome(s, NoExc, Absent, NoSend)

\* get_connection_params of the backend's wrapper, as its test states it
ConnectionParamsOutcome(s) ==
    IF ~settings.NAME
    THEN Outcome(s, ImproperlyConfiguredName, Absent, NoSend)
    ELSE Outcome(s, NoExc, Absent, NoSend)

Record(op, attr, pre, r) ==
    [op |-> op, prev |-> last.op, attr |-> attr, exc |-> r.exc, value |-> r.value,
     pre |-> pre, atSend |-> r.atSend, receiver |-> receiver]

Apply(op, attr, r) ==
    /\ connected' = r.s.connected
    /\ connection' = r.s.connection
    /\ database' = r.s.database
    /\ clients' = r.s.clients
    /\ sent' = r.s.sent
    /\ data' = r.s.data
    /\ last' = Record(op, attr, WState, r)
    /\ UNCHANGED <<settings, receiver>>

\* DatabaseWrapper.__init__: connected = False, del self.connection
WrapperNew(settings_dict) ==
    /\ settings = settings_dict
    /\ connected = FALSE
    /\ connection = Absent
    /\ database = Absent
    /\ clients = 0
    /\ sent = 0
    /\ receiver = FALSE
    /\ data = Absent
    /\ last = [op |-> "init", prev |-> "init", attr |-> "", exc |-> NoExc, value |-> Absent,
               pre |-> [connected |-> FALSE, connection |-> Absent, database |-> Absent,
                        clients |-> 0, sent |-> 0, data |-> Absent],
               atSend |-> NoSend, receiver |-> FALSE]

\* a wrapper for any NAME, USER and PASSWORD of settings.DATABASES
WrapperInit == \E settings_dict \in [NAME : BOOLEAN, USER : BOOLEAN] : WrapperNew(settings_dict)

\* the wrapper of a specification that does not use the connection
WrapperIdle == WrapperNew([NAME |-> TRUE, USER |-> FALSE])

\* wrapper.<attr>
Read ==
    \E attr \in Attrs, auth \in AuthAnswers :
        /\ clients < MaxClients
        /\ Apply("read", attr, ReadAttr(WState, attr, auth, 0))

\* wrapper.close()
Close == Apply("close", "", CloseOutcome(WState))

\* wrapper.get_connection_params()
GetConnectionParams ==
    Apply("get_connection_params", "", ConnectionParamsOutcome(WState))

\* connection_created.connect(receiver)
ConnectReceiver ==
    /\ ~receiver
    /\ receiver' = TRUE
    /\ last' = Record("signal.connect", "", WState, Outcome(WState, NoExc, Absent, NoSend))
    /\ UNCHANGED <<settings, connected, connection, database, clients, sent, data>>

\* connection_created.disconnect(receiver); data.clear()
DisconnectReceiver ==
    /\ receiver
    /\ receiver' = FALSE
    /\ data' = Absent
    /\ last' = Record("signal.disconnect", "", WState, Outcome(WState, NoExc, Absent, NoSend))
    /\ UNCHANGED <<settings, connected, connection, database, clients, sent>>

WrapperNext ==
    \/ Read /\ UNCHANGED others
    \/ Close /\ UNCHANGED others
    \/ GetConnectionParams /\ UNCHANGED others
    \/ ConnectReceiver /\ UNCHANGED others
    \/ DisconnectReceiver /\ UNCHANGED others

(***************************************************************************)
(* Python values                                                           *)
(***************************************************************************)
PyNone == [t |-> "None"]
PyInt(n) == [t |-> "int", i |-> n]
PyStr(c) == [t |-> "str", s |-> c]
PyDateTime(n) == [t |-> "datetime", at |-> n]
PyDict(items) == [t |-> "dict", items |-> items]
PyInstance(cls, adding, attrs) == [t |-> "inst", cls |-> cls, adding |-> adding, attrs |-> attrs]

\* int(c) of the strings the model uses
IntOfStr(c) == CASE c = "5" -> 5 [] c = "1" -> 1 [] OTHER -> 0

(***************************************************************************)
(* The embedded model of the tests (src/tests/model_fields_/models.py):    *)
(* EmbeddedModel._meta.fields, in order                                    *)
(***************************************************************************)
Field(attname, type, pk, auto_now, auto_now_add) ==
    [attname |-> attname, type |-> type, primary_key |-> pk,
     auto_now |-> auto_now, auto_now_add |-> auto_now_add]

EmbeddedModelFields ==
    << Field("id", "AutoField", TRUE, FALSE, FALSE),
       Field("someint", "IntegerField", FALSE, FALSE, FALSE),
       Field("auto_now", "DateTimeField", FALSE, TRUE, FALSE),
       Field("auto_now_add", "DateTimeField", FALSE, FALSE, TRUE) >>

MetaFields(cls) == IF cls = "EmbeddedModel" THEN EmbeddedModelFields ELSE << >>

AttNames(cls) == {MetaFields(cls)[i].attname : i \in 1..Len(MetaFields(cls))}

\* EmbeddedModelFieldModel.simple = EmbeddedModelField("EmbeddedModel", null=True)
SimpleField == [embedded_model |-> "EmbeddedModel"]

IsInstance(x, cls) == x.t = "inst" /\ x.cls = cls

\* Model.__init__(**kwargs): a field that is not given gets its default, None
NewInstance(cls, kwargs) ==
    PyInstance(cls, TRUE,
               [a \in AttNames(cls) |-> IF a \in DOMAIN kwargs THEN kwargs[a] ELSE PyNone])

\* IntegerField / AutoField get_prep_value and to_python: int(value)
ToInt(value) ==
    CASE value.t = "str" -> PyInt(IntOfStr(value.s))
      [] OTHER -> value

\* Field.get_db_prep_save of a field of the embedded model
FieldGetDbPrepSave(f, value) ==
    IF f.type \in {"AutoField", "IntegerField"} THEN ToInt(value) ELSE value

\* Field.to_python of a field of the embedded model
FieldToPython(f, value) ==
    IF f.type \in {"AutoField", "IntegerField"} THEN ToInt(value) ELSE value

\* Field.pre_save(instance, add); DateTimeField sets auto_now / auto_now_add
PreSave(f, inst, add, t) ==
    IF f.auto_now \/ (f.auto_now_add /\ add)
    THEN [value |-> PyDateTime(t), inst |-> [inst EXCEPT !.attrs[f.attname] = PyDateTime(t)]]
    ELSE [value |-> inst.attrs[f.attname], inst |-> inst]

RECURSIVE PrepFieldsKeepUnsetPk(_, _, _, _, _, _)
\* mutant of PrepFields: an unset primary key is stored as {'id': None}
PrepFieldsKeepUnsetPk(fields, i, inst, add, t, field_values) ==
    IF i > Len(fields)
    THEN [inst |-> inst, field_values |-> field_values]
    ELSE LET f == fields[i]
             p == PreSave(f, inst, add, t)
             value == FieldGetDbPrepSave(f, p.value)
         IN  PrepFieldsKeepUnsetPk(fields, i + 1, p.inst, add, t,
                                   field_values @@ (f.attname :> value))

RECURSIVE PrepFields(_, _, _, _, _, _)
\* the loop of get_db_prep_save over embedded_instance._meta.fields
PrepFields(fields, i, inst, add, t, field_values) ==
    IF i > Len(fields)
    THEN [inst |-> inst, field_values |-> field_values]
    ELSE LET f == fields[i]
             p == PreSave(f, inst, add, t)
             value == FieldGetDbPrepSave(f, p.value)
         IN  IF f.primary_key /\ value = PyNone
             THEN PrepFields(fields, i + 1, p.inst, add, t, field_values)
             ELSE PrepFields(fields, i + 1, p.inst, add, t,
                             field_values @@ (f.attname :> value))

\* EmbeddedModelField.get_db_prep_save; t is the clock's reading
EmbGetDbPrepSave(field, embedded_instance, t) ==
    IF embedded_instance = PyNone
    THEN [exc |-> NoExc, value |-> PyNone, inst |-> embedded_instance]
    ELSE IF ~IsInstance(embedded_instance, field.embedded_model)
    THEN [exc |-> "TypeError", value |-> PyNone, inst |-> embedded_instance]
    ELSE LET r == PrepFields(MetaFields(embedded_instance.cls), 1, embedded_instance,
                             embedded_instance.adding, t, << >>)
         IN  [exc |-> NoExc, value |-> PyDict(r.field_values),
              inst |-> [r.inst EXCEPT !.adding = FALSE]]

\* EmbeddedModelField.to_python
EmbToPython(field, value) ==
    IF value = PyNone THEN PyNone
    ELSE IF value.t # "dict" THEN value
    ELSE LET fields == MetaFields(field.embedded_model)
             given == {i \in 1..Len(fields) : fields[i].attname \in DOMAIN value.items}
             kwargs == [a \in {fields[i].attname : i \in given} |->
                          LET i == CHOOSE j \in given : fields[j].attname = a
                          IN  FieldToPython(fields[i], value.items[a])]
             instance == NewInstance(field.embedded_model, kwargs)
         IN  [instance EXCEPT !.adding = FALSE]

Unsaved == [t |-> "unsaved"]

\* the values a caller may assign to parent.simple
NewValues ==
    {PyNone, PyInt(42)} \cup
    {NewInstance("EmbeddedModel", ("id" :> id) @@ ("someint" :> n)) :
        id \in {PyNone, PyInt(1)}, n \in {PyNone, PyInt(5), PyStr("5")}}

\* the values to_python may be given
LoadValues ==
    {PyNone, PyInt(42), PyStr("5"), PyDict(<< >>), PyDict("someint" :> PyStr("5")),
     PyDict(("id" :> PyInt(1)) @@ ("someint" :> PyInt(5)) @@ ("auto_now" :> PyDateTime(1)))}

ClockInit == now = 0

EmbeddedInit ==
    /\ obj = PyNone
    /\ stored = Unsaved
    /\ elast = [op |-> "init", arg |-> PyNone, exc |-> NoExc, value |-> PyNone]

\* parent.simple = value
Assign ==
    \E v \in NewValues :
        /\ obj' = v
        /\ elast' = [op |-> "assign", arg |-> v, exc |-> NoExc, value |-> PyNone]
        /\ UNCHANGED <<stored, now>>

\* parent.simple.id = 1 (the primary key set explicitly)
SetId ==
    /\ obj.t = "inst"
    /\ obj' = [obj EXCEPT !.attrs["id"] = PyInt(1)]
    /\ elast' = [op |-> "set_id", arg |-> obj, exc |-> NoExc, value |-> PyNone]
    /\ UNCHANGED <<stored, now>>

\* parent.save(): the field's get_db_prep_save, then the value is stored
Save ==
    /\ now < MaxClock
    /\ LET r == EmbGetDbPrepSave(SimpleField, obj, now + 1)
       IN  /\ obj' = r.inst
           /\ stored' = IF r.exc = NoExc THEN r.value ELSE stored
           /\ elast' = [op |-> "save", arg |-> obj, exc |-> r.exc, value |-> r.value]
    /\ now' = now + 1

\* parent = Model.objects.get(): from_db_value -> to_python of the stored value
Load ==
    /\ stored # Unsaved
    /\ obj' = EmbToPython(SimpleField, stored)
    /\ elast' = [op |-> "load", arg |-> stored, exc |-> NoExc,
                 value |-> EmbToPython(SimpleField, stored)]
    /\ UNCHANGED <<stored, now>>

\* field.to_python(value) on a value given by a caller
ToPython ==
    \E v \in LoadValues :
        /\ elast' = [op |-> "to_python", arg |-> v, exc |-> NoExc,
                     value |-> EmbToPython(SimpleField, v)]
        /\ UNCHANGED <<obj, stored, now>>

EmbeddedNext ==
    \/ Assign /\ UNCHANGED <<wvars, ivars, cvars, fvars, lvars, mvars, gvars, kvars, svars, ovars, dvars>>
    \/ SetId /\ UNCHANGED <<wvars, ivars, cvars, fvars, lvars, mvars, gvars, kvars, svars, ovars, dvars>>
    \/ Save /\ UNCHANGED <<wvars, ivars, cvars, fvars, lvars, mvars, gvars, kvars, svars, ovars, dvars>>
    \/ Load /\ UNCHANGED <<wvars, ivars, cvars, fvars, lvars, mvars, gvars, kvars, svars, ovars, dvars>>
    \/ ToPython /\ UNCHANGED <<wvars, ivars, cvars, fvars, lvars, mvars, gvars, kvars, svars, ovars, dvars>>


(***************************************************************************)
(* SQLInsertCompiler (src/django_mongodb/compiler.py)                      *)
(***************************************************************************)
\* a field of the model that is saved; embedded_model is "" for a plain field
ModelField(name, null, pk, embedded_model) ==
    [name |-> name, null |-> null, primary_key |-> pk, embedded_model |-> embedded_model]

IdField == ModelField("id", FALSE, TRUE, "")

\* the fields a model of the tests declares besides its primary key
OtherFields ==
    { ModelField("name", FALSE, FALSE, ""),
      ModelField("note", TRUE, FALSE, ""),
      ModelField("author", FALSE, FALSE, "EmbeddedModel"),
      ModelField("simple", TRUE, FALSE, "EmbeddedModel") }

\* query.fields: the primary key, then up to MaxFields other fields
FieldLists ==
    { <<IdField>> } \cup
    UNION { { <<IdField>> \o fs : fs \in { g \in [1..n -> OtherFields] :
                                            \A a, b \in 1..n : a # b => g[a] # g[b] } }
            : n \in 1..MaxFields }

\* the values an attribute of a new object may hold
AttrValues(f) ==
    IF f.primary_key THEN {PyNone, PyInt(1)}
    ELSE IF f.embedded_model = "" THEN {PyNone, PyStr("v")}
    ELSE {PyNone, PyInt(42), NewInstance(f.embedded_model, "someint" :> PyInt(5))}

FieldNames(fields) == {fields[j].name : j \in 1..Len(fields)}

FieldNamed(fields, name) == fields[CHOOSE j \in 1..Len(fields) : fields[j].name = name]

\* the new objects (obj._state.adding is True) of a model with these fields
NewObjects(fields) ==
    { [adding |-> TRUE, attrs |-> a] :
        a \in { g \in [FieldNames(fields) -> UNION {AttrValues(fields[j]) : j \in 1..Len(fields)}] :
                  \A n \in FieldNames(fields) : g[n] \in AttrValues(FieldNamed(fields, n)) } }

IntegrityErrorNull(name) ==
    [type |-> "IntegrityError", msg |-> "You can't set %s (a non-nullable field) to None.",
     arg |-> name]
NoError == [type |-> NoExc, msg |-> "", arg |-> ""]
RaisedError(type) == [type |-> type, msg |-> "", arg |-> ""]

\* mutant of MustNotBeNone: the primary key is not exempted
MustNotBeNoneEvenPk(field, value) == value = PyNone /\ ~field.null

\* `value is None and not field.null and not field.primary_key`
MustNotBeNone(field, value) == value = PyNone /\ ~field.null /\ ~field.primary_key

\* field.get_db_prep_save of a field of the saved model
ModelFieldGetDbPrepSave(field, value, t) ==
    IF field.embedded_model # ""
    THEN EmbGetDbPrepSave(field, value, t)
    ELSE [exc |-> NoExc, value |-> value, inst |-> value]

\* the argument of get_db_prep_save: getattr(obj, attname) when query.raw, else
\* field.pre_save(obj, adding), which for these fields reads the attribute too
ValueToSave(field, o, raw) ==
    IF raw THEN o.attrs[field.name] ELSE o.attrs[field.name]

RECURSIVE PrepareObject(_, _, _, _, _, _, _)
\* the body of the inner loop of execute_sql; r is what the field's
\* get_db_prep_save did (the embedded instance it leaves is the attribute's)
PrepareField(fields, j, o, raw, t, field_values, prepared, r) ==
    IF r.exc # NoExc
    THEN [exc |-> RaisedError(r.exc), o |-> [o EXCEPT !.attrs[fields[j].name] = r.inst],
          field_values |-> field_values, prepared |-> prepared]
    ELSE IF MustNotBeNone(fields[j], r.value)
    THEN [exc |-> IntegrityErrorNull(fields[j].name),
          o |-> [o EXCEPT !.attrs[fields[j].name] = r.inst],
          field_values |-> field_values,
          prepared |-> Append(prepared, [field |-> fields[j], value |-> r.value])]
    ELSE PrepareObject(fields, j + 1, [o EXCEPT !.attrs[fields[j].name] = r.inst], raw, t,
                       field_values @@ (fields[j].name :> r.value),
                       Append(prepared, [field |-> fields[j], value |-> r.value]))

\* the inner loop of execute_sql: `for field in self.query.fields`
PrepareObject(fields, j, o, raw, t, field_values, prepared) ==
    IF j > Len(fields)
    THEN [exc |-> NoError, o |-> o, field_values |-> field_values, prepared |-> prepared]
    ELSE PrepareField(fields, j, o, raw, t, field_values, prepared,
                      ModelFieldGetDbPrepSave(fields[j], ValueToSave(fields[j], o, raw), t))

RECURSIVE PrepareObjects(_, _, _, _, _, _, _)
\* the body of the outer loop of execute_sql; r is what the inner loop did
PreparedObject(fields, objs, i, raw, t, docs, r) ==
    IF r.exc # NoError
    THEN [exc |-> r.exc, objs |-> [objs EXCEPT ![i] = r.o], docs |-> docs,
          prepared |-> r.prepared]
    ELSE PrepareObjects(fields, [objs EXCEPT ![i] = r.o], i + 1, raw, t,
                        Append(docs, r.field_values), r.prepared)

\* the outer loop of execute_sql: `for obj in self.query.objs`
PrepareObjects(fields, objs, i, raw, t, docs, prepared) ==
    IF i > Len(objs)
    THEN [exc |-> NoError, objs |-> objs, docs |-> docs, prepared |-> prepared]
    ELSE PreparedObject(fields, objs, i, raw, t, docs,
                        PrepareObject(fields, 1, objs[i], raw, t, << >>, prepared))

\* SQLInsertCompiler.insert: collection.insert_many(docs); the driver stores the
\* documents in order and either stores all of them (reject = 0) or rejects the
\* reject-th one, which wrap_database_errors raises as a DatabaseError
InsertMany(coll, docs, reject, returning_fields) ==
    IF reject = 0
    THEN [exc |-> NoError, coll |-> coll \o docs,
          value |-> IF returning_fields
                    THEN [k \in 1..Len(docs) |-> Len(coll) + k] ELSE << >>]
    ELSE [exc |-> RaisedError("DatabaseError"),
          coll |-> coll \o SubSeq(docs, 1, reject - 1), value |-> << >>]

\* `return [self.insert(objs, returning_fields=returning_fields)]`; p is what
\* the loops did and r what insert() did
InsertResult(p, r) ==
    [exc |-> r.exc, objs |-> p.objs, coll |-> r.coll, called |-> TRUE,
     docs |-> p.docs, prepared |-> p.prepared, value |-> r.value]

\* execute_sql after its loops; p is what the loops did
InsertPrepared(p, coll, reject, returning_fields) ==
    IF p.exc # NoError
    THEN [exc |-> p.exc, objs |-> p.objs, coll |-> coll, called |-> FALSE,
          docs |-> << >>, prepared |-> p.prepared, value |-> << >>]
    ELSE InsertResult(p, InsertMany(coll, p.docs, reject, returning_fields))

\* SQLInsertCompiler.execute_sql
InsertExecuteSql(fields, objs, coll, raw, t, reject, returning_fields) ==
    InsertPrepared(PrepareObjects(fields, objs, 1, raw, t, << >>, << >>),
                   coll, reject, returning_fields)

\* an InsertQuery over one to MaxObjs new objects of some model
InsertInit ==
    /\ ifields \in FieldLists
    /\ \E n \in 1..MaxObjs : iobjs \in [1..n -> NewObjects(ifields)]
    /\ icoll = << >>
    /\ icalls = 0
    /\ ilast = [op |-> "init", exc |-> NoError, called |-> FALSE, docs |-> << >>,
                prepared |-> << >>, value |-> << >>, before |-> << >>]

\* the insert of a specification that does not insert
InsertIdle ==
    /\ ifields = <<IdField>>
    /\ iobjs = << >>
    /\ icoll = << >>
    /\ icalls = 0
    /\ ilast = [op |-> "init", exc |-> NoError, called |-> FALSE, docs |-> << >>,
                prepared |-> << >>, value |-> << >>, before |-> << >>]

\* compiler.execute_sql(returning_fields) on the InsertQuery
Insert ==
    \E raw \in BOOLEAN, returning_fields \in BOOLEAN, reject \in 0..Len(iobjs) :
        /\ icalls < MaxInserts
        /\ now < MaxClock
        /\ \E r \in {InsertExecuteSql(ifields, iobjs, icoll, raw, now + 1, reject,
                                       returning_fields)} :
               /\ r.called \/ reject = 0
               /\ iobjs' = r.objs
               /\ icoll' = r.coll
               /\ ilast' = [op |-> "insert", exc |-> r.exc, called |-> r.called,
                            docs |-> r.docs, prepared |-> r.prepared, value |-> r.value,
                            before |-> icoll]
        /\ icalls' = icalls + 1
        /\ now' = now + 1
        /\ UNCHANGED ifields

InsertNext ==
    \/ Insert /\ UNCHANGED <<wvars, evars, cvars, fvars, lvars, mvars, gvars, kvars, svars, ovars, dvars>>


(***************************************************************************)
(* SQLCompiler.check_query / build_query, SQLUpdateCompiler and            *)
(* SQLDeleteCompiler (src/django_mongodb/compiler.py)                      *)
(***************************************************************************)
NotSupportedError(msg) == [type |-> "NotSupportedError", msg |-> msg, arg |-> ""]
DatetimesNotSupported == NotSupportedError("QuerySet.datetimes() is not supported on MongoDB.")
DatesNotSupported == NotSupportedError("QuerySet.dates() is not supported on MongoDB.")
DistinctNotSupported == NotSupportedError("QuerySet.distinct() is not supported on MongoDB.")
PrefetchRelatedNotSupported ==
    NotSupportedError("QuerySet.prefetch_related() is not supported on MongoDB.")
ExtraNotSupported == NotSupportedError("QuerySet.extra() is not supported on MongoDB.")
AggregateNotSupported == NotSupportedError("QuerySet.aggregate() isn't supported on MongoDB.")
MultiUpdateNotSupported ==
    NotSupportedError("Cannot use QuerySet.update() when querying across multiple collections on MongoDB.")
MultiDeleteNotSupported ==
    NotSupportedError("Cannot use QuerySet.delete() when querying across multiple collections on MongoDB.")
ExpressionNotSupported ==
    NotSupportedError("QuerySet.update() with expression not supported.")
DatabaseErrorId == [type |-> "DatabaseError", msg |-> "Cannot modify _id.", arg |-> ""]
EmptyResultSet == RaisedError("EmptyResultSet")
FullResultSet == RaisedError("FullResultSet")

\* a dict key is the sequence of its parts; key.startswith(prefix)
StartsWith(key, prefix) ==
    Len(key) >= Len(prefix) /\ SubSeq(key, 1, Len(prefix)) = prefix
PrefetchRelatedPrefix == <<"_prefetch_related_">>

\* the classes of the annotations: Count is an Aggregate, F is not
IsAggregate(a) == a \in {"Count", "Sum"}
IsCount(a) == a = "Count"

\* a query that is not an AggregateQuery has no inner_query
NoInner == PyNone
InnerQuery(distinct, extra, annotations) ==
    [t |-> "Query", distinct |-> distinct, extra |-> extra, annotations |-> annotations]

\* the attributes of a django Query that the compilers read; related_updates is
\* the list that get_related_updates() returns
Query(collection, distinct, inner_query, annotations, extra, where, alias_refcount, values, related_updates) ==
    [collection |-> collection, distinct |-> distinct, inner_query |-> inner_query,
     annotations |-> annotations, extra |-> extra, where |-> where,
     alias_refcount |-> alias_refcount, values |-> values,
     related_updates |-> related_updates]

\* getattr(getattr(self.query, "inner_query", None), "distinct", None)
InnerDistinct(query) ==
    IF query.inner_query = NoInner THEN FALSE ELSE query.inner_query.distinct

\* mutant of CheckQuery: the inner_query is not consulted
CheckQueryOuterOnly(query) ==
    IF query.distinct
    THEN IF "datetimefield" \in DOMAIN query.annotations THEN DatetimesNotSupported
         ELSE IF "datefield" \in DOMAIN query.annotations THEN DatesNotSupported
         ELSE DistinctNotSupported
    ELSE IF query.extra # {}
    THEN IF \E key \in query.extra : StartsWith(key, PrefetchRelatedPrefix)
         THEN PrefetchRelatedNotSupported
         ELSE ExtraNotSupported
    ELSE IF \E k \in DOMAIN query.annotations :
               IsAggregate(query.annotations[k]) /\ ~IsCount(query.annotations[k])
    THEN AggregateNotSupported
    ELSE NoError

\* SQLCompiler.check_query: the exception it raises, NoError if it returns
CheckQuery(query) ==
    IF query.distinct \/ InnerDistinct(query)
    THEN IF "datetimefield" \in DOMAIN query.annotations THEN DatetimesNotSupported
         ELSE IF "datefield" \in DOMAIN query.annotations THEN DatesNotSupported
         ELSE DistinctNotSupported
    ELSE IF query.extra # {}
    THEN IF \E key \in query.extra : StartsWith(key, PrefetchRelatedPrefix)
         THEN PrefetchRelatedNotSupported
         ELSE ExtraNotSupported
    ELSE IF \E k \in DOMAIN query.annotations :
               IsAggregate(query.annotations[k]) /\ ~IsCount(query.annotations[k])
    THEN AggregateNotSupported
    ELSE NoError

\* mutant of UpdateCheckQuery: every alias of alias_map is counted
UpdateCheckQueryAllAliases(query) ==
    IF CheckQuery(query) # NoError THEN CheckQuery(query)
    ELSE IF Cardinality(DOMAIN query.alias_refcount) > 1 THEN MultiUpdateNotSupported
    ELSE NoError

\* SQLUpdateCompiler.check_query
UpdateCheckQuery(query) ==
    IF CheckQuery(query) # NoError THEN CheckQuery(query)
    ELSE IF Cardinality({a \in DOMAIN query.alias_refcount : query.alias_refcount[a] # 0}) > 1
    THEN MultiUpdateNotSupported
    ELSE NoError

\* django's SQLDeleteCompiler.single_alias, on a query whose base table
\* get_initial_alias() has put in alias_map
SingleAlias(query) ==
    Cardinality({a \in DOMAIN query.alias_refcount : query.alias_refcount[a] > 0}) = 1

\* SQLDeleteCompiler.check_query
DeleteCheckQuery(query) ==
    IF CheckQuery(query) # NoError THEN CheckQuery(query)
    ELSE IF ~SingleAlias(query) THEN MultiDeleteNotSupported
    ELSE NoError

\* self.check_query() of the compiler class
CheckQueryOf(compiler, query) ==
    CASE compiler = "update" -> UpdateCheckQuery(query)
      [] compiler = "delete" -> DeleteCheckQuery(query)
      [] OTHER -> CheckQuery(query)

\* the filters of the model's queries: one that matches everything, one that
\* matches nothing, and foo = 1
Wheres == {"FullResultSet", "EmptyResultSet", "foo"}

\* self.query.where.as_mql(self, self.connection)
WhereAsMql(where) ==
    IF where = "EmptyResultSet" THEN [exc |-> EmptyResultSet, mql |-> PyNone]
    ELSE IF where = "FullResultSet" THEN [exc |-> FullResultSet, mql |-> PyNone]
    ELSE [exc |-> NoError, mql |-> [field |-> "foo", value |-> PyInt(1)]]

NoColumns == PyNone
Columns(names) == [t |-> "list", items |-> names]
MatchAll == [t |-> "all"]
Expr(mql) == [t |-> "$expr", cond |-> mql]

\* build_query once check_query has run; c is the exception of check_query
\* and w what where.as_mql does
BuildChecked(columns, c, w) ==
    IF c # NoError
    THEN [exc |-> c, mongo_query |-> PyNone, columns |-> columns,
          steps |-> <<"check_query">>]
    ELSE IF w.exc = EmptyResultSet
    THEN [exc |-> EmptyResultSet, mongo_query |-> PyNone, columns |-> columns,
          steps |-> <<"check_query", "query_class", "get_lookup_pipeline", "where.as_mql">>]
    ELSE [exc |-> NoError,
          mongo_query |-> IF w.exc = FullResultSet THEN MatchAll ELSE Expr(w.mql),
          columns |-> columns,
          steps |-> <<"check_query", "query_class", "get_lookup_pipeline", "where.as_mql",
                      "order_by">>]

\* SQLCompiler.build_query of a compiler of the given class
BuildQuery(query, compiler, columns) ==
    BuildChecked(columns, CheckQueryOf(compiler, query), WhereAsMql(query.where))

\* a document of a collection
Doc(id, foo, rel) ==
    ("_id" :> PyInt(id)) @@ ("foo" :> PyInt(foo)) @@ ("rel_id" :> PyInt(rel))

\* the documents of a collection (a set) that a mongo_query matches
Matched(coll, mongo_query) ==
    { d \in coll : mongo_query = MatchAll \/ d[mongo_query.cond.field] = mongo_query.cond.value }

\* {"$set": set} applied to a document
SetFields(doc, set) ==
    [c \in DOMAIN doc \cup DOMAIN set |-> IF c \in DOMAIN set THEN set[c] ELSE doc[c]]

\* collection.update_many(criteria, {"$set": set})
UpdateMany(coll, criteria, set) ==
    (coll \ Matched(coll, criteria)) \cup { SetFields(d, set) : d \in Matched(coll, criteria) }

\* collection.delete_many(criteria), which MongoQuery.delete() calls
DeleteMany(coll, criteria) == coll \ Matched(coll, criteria)

\* the fields of the updated model
UpdateField(name, column, pk, remote_field) ==
    [name |-> name, column |-> column, primary_key |-> pk, remote_field |-> remote_field]
PkField == UpdateField("id", "_id", TRUE, FALSE)
FooField == UpdateField("foo", "foo", FALSE, FALSE)
RelField == UpdateField("rel", "rel_id", FALSE, TRUE)

\* the values of an update: plain values, an expression, a model instance
PyExpression == [t |-> "Expression"]
PyModel(pk) == [t |-> "model", pk |-> pk]

\* hasattr(value, "prepare_database_save"): every model instance has it, an
\* instance of an embedded model too
HasPrepareDatabaseSave(value) == value.t \in {"model", "inst"}
\* Model.prepare_database_save(field): the instance's primary key
PrepareDatabaseSave(value) == value.pk
\* isinstance(value, Expression)
IsExpression(value) == value.t = "Expression"

\* field.get_db_prep_save(value) of an integer field: an expression is
\* returned as it is, any other value goes through int()
UpdateGetDbPrepSave(field, value) ==
    IF IsExpression(value) THEN value ELSE ToInt(value)

\* field.get_db_prep_save(value) of an EmbeddedModelField raises TypeError for
\* a value that is neither None nor an instance of the embedded model
EmbeddedValueRefused(field, value) ==
    /\ "embedded_model" \in DOMAIN field
    /\ value # PyNone
    /\ ~IsInstance(value, field.embedded_model)

\* one (field, model, value) of query.values
UpdateValue(field, value) == [field |-> field, value |-> value]

RECURSIVE PrepareValues(_, _, _)
\* the loop of SQLUpdateCompiler.execute_sql over self.query.values
PrepareValues(qvalues, k, values) ==
    IF k > Len(qvalues)
    THEN [exc |-> NoError, values |-> values]
    ELSE IF HasPrepareDatabaseSave(qvalues[k].value) /\ ~qvalues[k].field.remote_field
    THEN [exc |-> RaisedError("TypeError"), values |-> values]
    ELSE IF EmbeddedValueRefused(qvalues[k].field, qvalues[k].value)
    THEN [exc |-> RaisedError("TypeError"), values |-> values]
    ELSE PrepareValues(qvalues, k + 1,
             Append(values,
                    UpdateValue(qvalues[k].field,
                                UpdateGetDbPrepSave(qvalues[k].field,
                                    IF HasPrepareDatabaseSave(qvalues[k].value)
                                    THEN PrepareDatabaseSave(qvalues[k].value)
                                    ELSE qvalues[k].value))))

RECURSIVE UpdateSpecExpressionFirst(_, _, _)
\* mutant of UpdateSpec: the value is tested before the field
UpdateSpecExpressionFirst(values, k, set) ==
    IF k > Len(values)
    THEN [exc |-> NoError, set |-> set]
    ELSE IF IsExpression(values[k].value)
    THEN [exc |-> ExpressionNotSupported, set |-> set]
    ELSE IF values[k].field.primary_key
    THEN [exc |-> DatabaseErrorId, set |-> set]
    ELSE UpdateSpecExpressionFirst(values, k + 1,
                                   SetFields(set, values[k].field.column :> values[k].value))

RECURSIVE UpdateSpec(_, _, _)
\* the loop of SQLUpdateCompiler.update: spec.setdefault("$set", {})[column] = value
UpdateSpec(values, k, set) ==
    IF k > Len(values)
    THEN [exc |-> NoError, set |-> set]
    ELSE IF values[k].field.primary_key
    THEN [exc |-> DatabaseErrorId, set |-> set]
    ELSE IF IsExpression(values[k].value)
    THEN [exc |-> ExpressionNotSupported, set |-> set]
    ELSE UpdateSpec(values, k + 1,
                    SetFields(set, values[k].field.column :> values[k].value))

\* what the compilers have done so far: the collections, the calls made (log)
\* and the number of commands sent to the driver
Progress(cs, log, n) == [colls |-> cs, log |-> log, n |-> n]
Called(st, event) == [st EXCEPT !.log = Append(@, event)]
Raised(exc, st) == [exc |-> exc, rows |-> 0, st |-> st]

\* execute_update once build_query has run; b is what build_query did. The
\* driver refuses the fail-th command, which wrap_database_errors raises as a
\* DatabaseError
ExecuteUpdateBuilt(query, set, st, fail, b) ==
    IF b.exc = EmptyResultSet THEN [exc |-> NoError, rows |-> 0, st |-> st]
    ELSE IF b.exc # NoError THEN Raised(b.exc, st)
    ELSE IF fail = st.n + 1
    THEN Raised(RaisedError("DatabaseError"),
                Progress(st.colls,
                         Append(st.log, [ev |-> "update_many", collection |-> query.collection,
                                         criteria |-> b.mongo_query, set |-> set]),
                         st.n + 1))
    ELSE [exc |-> NoError,
          rows |-> Cardinality(Matched(st.colls[query.collection], b.mongo_query)),
          st |-> Progress([st.colls EXCEPT ![query.collection] =
                               UpdateMany(@, b.mongo_query, set)],
                          Append(st.log, [ev |-> "update_many", collection |-> query.collection,
                                          criteria |-> b.mongo_query, set |-> set]),
                          st.n + 1)]

\* SQLUpdateCompiler.execute_update
ExecuteUpdate(query, set, st, fail) ==
    ExecuteUpdateBuilt(query, set,
                       Called(st, [ev |-> "execute_update", collection |-> query.collection,
                                   set |-> set]),
                       fail, BuildQuery(query, "update", NoColumns))

\* update() after its loop; s is what the loop did
UpdateChecked(query, st, fail, s) ==
    IF s.exc # NoError THEN Raised(s.exc, st) ELSE ExecuteUpdate(query, s.set, st, fail)

\* SQLUpdateCompiler.update
CompilerUpdate(query, values, st, fail) ==
    UpdateChecked(query,
                  Called(st, [ev |-> "update", collection |-> query.collection,
                              values |-> values]),
                  fail, UpdateSpec(values, 1, << >>))

RECURSIVE UpdateExecuteSql(_, _, _)
RECURSIVE RelatedUpdates(_, _, _, _, _, _)

\* mutant of RelatedUpdated: the row count of a related update that reports
\* rows replaces the count of the main update
RelatedUpdatedLast(related, k, is_empty, rows, fail, aux) ==
    IF aux.exc # NoError THEN Raised(aux.exc, aux.st)
    ELSE RelatedUpdates(related, k + 1, is_empty /\ aux.rows = 0,
                        IF aux.rows # 0 THEN aux.rows ELSE rows,
                        Called(aux.st, [ev |-> "related", k |-> k, rows |-> aux.rows]),
                        fail)

\* the body of the loop over get_related_updates(); aux is what the related
\* query's execute_sql did
RelatedUpdated(related, k, is_empty, rows, fail, aux) ==
    IF aux.exc # NoError THEN Raised(aux.exc, aux.st)
    ELSE RelatedUpdates(related, k + 1, is_empty /\ aux.rows = 0,
                        IF is_empty /\ aux.rows # 0 THEN aux.rows ELSE rows,
                        Called(aux.st, [ev |-> "related", k |-> k, rows |-> aux.rows]),
                        fail)

\* `for query in self.query.get_related_updates()`
RelatedUpdates(related, k, is_empty, rows, st, fail) ==
    IF k > Len(related)
    THEN [exc |-> NoError, rows |-> rows, st |-> st]
    ELSE RelatedUpdated(related, k, is_empty, rows, fail,
                        UpdateExecuteSql(related[k], st, fail))

\* execute_sql after `self.update(values)`; m is what update() did
UpdatedMain(query, fail, m) ==
    IF m.exc # NoError THEN m
    ELSE RelatedUpdates(query.related_updates, 1, FALSE, m.rows, m.st, fail)

\* execute_sql after its loop over query.values; p is what the loop did
UpdatePrepared(query, st, fail, p) ==
    IF p.exc # NoError THEN Raised(p.exc, st)
    ELSE IF p.values = << >>
    THEN RelatedUpdates(query.related_updates, 1, TRUE, 0, st, fail)
    ELSE UpdatedMain(query, fail, CompilerUpdate(query, p.values, st, fail))

\* SQLUpdateCompiler.execute_sql
UpdateExecuteSql(query, st, fail) ==
    UpdatePrepared(query, st, fail, PrepareValues(query.values, 1, << >>))

\* SQLDeleteCompiler.execute_sql once build_query has run: MongoQuery.delete()
DeleteBuilt(query, st, fail, b) ==
    IF b.exc # NoError THEN Raised(b.exc, st)
    ELSE IF fail = st.n + 1
    THEN Raised(RaisedError("DatabaseError"),
                Progress(st.colls,
                         Append(st.log, [ev |-> "delete_many", collection |-> query.collection,
                                         criteria |-> b.mongo_query]),
                         st.n + 1))
    ELSE [exc |-> NoError,
          rows |-> Cardinality(Matched(st.colls[query.collection], b.mongo_query)),
          st |-> Progress([st.colls EXCEPT ![query.collection] = DeleteMany(@, b.mongo_query)],
                          Append(st.log, [ev |-> "delete_many", collection |-> query.collection,
                                          criteria |-> b.mongo_query]),
                          st.n + 1)]

\* SQLDeleteCompiler.execute_sql: cursor.rowcount = build_query([pk]).delete()
DeleteExecuteSql(query, st, fail) ==
    DeleteBuilt(query, st, fail, BuildQuery(query, "delete", Columns(<<"pk">>)))

\* the collections: the updated model's and those of its two parents
InitialColls ==
    ("c" :> {Doc(1, 1, 0), Doc(2, 0, 0)}) @@
    ("p1" :> {Doc(1, 1, 0), Doc(2, 0, 0)}) @@
    ("p2" :> {Doc(1, 0, 0)})

BaseAlias == "t" :> 1
AliasRefcounts == { BaseAlias, ("t" :> 1) @@ ("u" :> 0), ("t" :> 1) @@ ("u" :> 1) }

NoAnnotations == << >>
AnnotationDicts ==
    { NoAnnotations,
      "datetimefield" :> "F",
      "datefield" :> "F",
      ("datefield" :> "F") @@ ("datetimefield" :> "F"),
      "n" :> "Count",
      "n" :> "Sum",
      "__count" :> "Count",
      ("n" :> "Sum") @@ ("datetimefield" :> "F") }

ExtraDicts ==
    { {}, {<<"a">>}, {<<"_prefetch_related_", "val_x">>},
      {<<"a">>, <<"_prefetch_related_", "val_x">>}, {<<"my", "_prefetch_related_">>} }

InnerQueries ==
    { NoInner, InnerQuery(FALSE, {}, NoAnnotations), InnerQuery(TRUE, {}, NoAnnotations),
      InnerQuery(FALSE, {<<"a">>}, "n" :> "Sum") }

\* the queries a select compiler is given
SelectQueries ==
    { Query("c", d, iq, a, e, w, BaseAlias, << >>, << >>) :
        d \in BOOLEAN, iq \in InnerQueries, a \in AnnotationDicts, e \in ExtraDicts,
        w \in Wheres }

\* the (field, value) pairs of an update
UpdateValues ==
    { UpdateValue(FooField, PyInt(0)), UpdateValue(FooField, PyStr("1")),
      UpdateValue(FooField, PyExpression), UpdateValue(FooField, PyModel(PyInt(1))),
      UpdateValue(RelField, PyModel(PyInt(1))), UpdateValue(RelField, PyInt(1)),
      UpdateValue(PkField, PyInt(5)), UpdateValue(PkField, PyExpression) }

ValueLists == UNION { [1..n -> UpdateValues] : n \in 0..MaxValues }

\* the update of a parent's collection that get_related_updates() returns
RelatedQuery(collection, where, values) ==
    Query(collection, FALSE, NoInner, NoAnnotations, {}, where, BaseAlias, values, << >>)

RelatedQueries(collection) ==
    { RelatedQuery(collection, w, <<UpdateValue(FooField, PyInt(0))>>) : w \in Wheres }
    \cup { RelatedQuery(collection, "foo", <<UpdateValue(PkField, PyInt(5))>>) }

RelatedLists ==
    UNION { { r \in [1..n -> UNION {RelatedQueries("p1"), RelatedQueries("p2")}] :
                \A k \in 1..n : r[k].collection = <<"p1", "p2">>[k] }
            : n \in 0..MaxRelated }

\* the queries an update or delete compiler is given
UpdateQueries ==
    { Query("c", d, NoInner, NoAnnotations, {}, w, al, v, r) :
        d \in BOOLEAN, w \in Wheres, al \in AliasRefcounts, v \in ValueLists,
        r \in RelatedLists }

NoCall ==
    [op |-> "init", exc |-> NoError, rows |-> 0, log |-> << >>, steps |-> << >>,
     value |-> PyNone, before |-> InitialColls]

\* a select compiler and its query
SelectInit ==
    /\ cquery \in SelectQueries
    /\ colls = InitialColls
    /\ ccalls = 0
    /\ clast = NoCall

\* an update or delete compiler and its query
UpdateInit ==
    /\ cquery \in UpdateQueries
    /\ colls = InitialColls
    /\ ccalls = 0
    /\ clast = NoCall

\* the compiler of a specification that does not query
CompilerIdle ==
    /\ cquery = Query("c", FALSE, NoInner, NoAnnotations, {}, "FullResultSet", BaseAlias,
                     << >>, << >>)
    /\ colls = InitialColls
    /\ ccalls = 0
    /\ clast = NoCall

\* compiler.build_query(columns) of a select compiler
Build ==
    \E columns \in {NoColumns, Columns(<<"pk">>)} :
        /\ ccalls < MaxCompilerCalls
        /\ \E b \in {BuildQuery(cquery, "select", columns)} :
               clast' = [op |-> "build_query", exc |-> b.exc, rows |-> 0, log |-> << >>,
                         steps |-> b.steps, value |-> b, before |-> colls]
        /\ ccalls' = ccalls + 1
        /\ UNCHANGED <<cquery, colls>>

\* SQLUpdateCompiler(query).execute_sql(result_type)
Update ==
    \E fail \in 0..MaxRelated + 1 :
        /\ ccalls < MaxCompilerCalls
        /\ \E r \in {UpdateExecuteSql(cquery, Progress(colls, << >>, 0), fail)} :
               /\ fail <= r.st.n
               /\ colls' = r.st.colls
               /\ clast' = [op |-> "update", exc |-> r.exc, rows |-> r.rows,
                            log |-> r.st.log, steps |-> << >>, value |-> PyNone,
                            before |-> colls]
        /\ ccalls' = ccalls + 1
        /\ UNCHANGED cquery

\* SQLDeleteCompiler(query).execute_sql()
Delete ==
    \E fail \in 0..1 :
        /\ ccalls < MaxCompilerCalls
        /\ \E r \in {DeleteExecuteSql(cquery, Progress(colls, << >>, 0), fail)} :
               /\ fail <= r.st.n
               /\ colls' = r.st.colls
               /\ clast' = [op |-> "delete", exc |-> r.exc, rows |-> r.rows,
                            log |-> r.st.log, steps |-> << >>, value |-> PyNone,
                            before |-> colls]
        /\ ccalls' = ccalls + 1
        /\ UNCHANGED cquery

QueryNext ==
    \/ Build /\ UNCHANGED <<wvars, evars, now, ivars, fvars, lvars, mvars, gvars, kvars, svars, ovars, dvars>>

UpdateNext ==
    \/ Update /\ UNCHANGED <<wvars, evars, now, ivars, fvars, lvars, mvars, gvars, kvars, svars, ovars, dvars>>
    \/ Delete /\ UNCHANGED <<wvars, evars, now, ivars, fvars, lvars, mvars, gvars, kvars, svars, ovars, dvars>>


(***************************************************************************)
(* Model.save() and Model.objects.get() of a parent object whose field     *)
(* `simple` is an EmbeddedModelField (src/tests/model_fields_/models.py),  *)
(* through the compilers                                                   *)
(***************************************************************************)
\* _meta.fields of EmbeddedModelFieldModel as the insert compiler reads them
ParentFields == <<IdField, ModelField("simple", TRUE, FALSE, "EmbeddedModel")>>

\* the field `simple` as the update compiler reads it
SimpleUpdateField ==
    UpdateField("simple", "simple", FALSE, FALSE) @@ ("embedded_model" :> "EmbeddedModel")

\* the parent object that save() inserts
ParentObject(value) == [adding |-> TRUE, attrs |-> ("id" :> PyNone) @@ ("simple" :> value)]

\* the UpdateQuery of save() on a parent that is in the database
ParentUpdateQuery(value) ==
    Query("c", FALSE, NoInner, NoAnnotations, {}, "FullResultSet", BaseAlias,
          <<UpdateValue(SimpleUpdateField, value)>>, << >>)

\* the collection of the parent, holding its document
ParentColl(value) == "c" :> {("_id" :> PyInt(1)) @@ ("simple" :> value)}

\* the value of `simple` in the parent's document
StoredSimple(cs) == (CHOOSE d \in cs["c"] : TRUE)["simple"]

\* what save() of a new parent did: r is what SQLInsertCompiler.execute_sql did
ParentInserted(r) ==
    [exc |-> r.exc.type, inst |-> r.objs[1].attrs["simple"],
     stored |-> IF r.exc = NoError /\ r.called THEN r.docs[1]["simple"] ELSE Unsaved]

\* what save() of a stored parent did: r is what SQLUpdateCompiler.execute_sql did
ParentUpdated(value, r) ==
    [exc |-> r.exc.type, inst |-> value, stored |-> StoredSimple(r.st.colls)]

\* parent.save(): an insert while the parent is new, an update afterwards
ParentSaveOutcome(value, st, t) ==
    IF st = Unsaved
    THEN ParentInserted(InsertExecuteSql(ParentFields, <<ParentObject(value)>>, << >>,
                                         FALSE, t, 0, TRUE))
    ELSE ParentUpdated(value, UpdateExecuteSql(ParentUpdateQuery(value),
                                               Progress(ParentColl(st), << >>, 0), 0))

\* parent.save()
ParentSave ==
    /\ now < MaxClock
    /\ \E r \in {ParentSaveOutcome(obj, stored, now + 1)} :
           /\ obj' = r.inst
           /\ stored' = r.stored
           /\ elast' = [op |-> "parent.save", arg |-> obj, exc |-> r.exc,
                        value |-> r.stored, adding |-> stored = Unsaved]
    /\ now' = now + 1

\* parent = EmbeddedModelFieldModel(simple=parent.simple): a new parent object
ParentNew ==
    /\ stored # Unsaved
    /\ stored' = Unsaved
    /\ elast' = [op |-> "parent.new", arg |-> obj, exc |-> NoExc, value |-> PyNone]
    /\ UNCHANGED <<obj, now>>

ParentNext ==
    \/ Assign /\ UNCHANGED <<wvars, ivars, cvars, fvars, lvars, mvars, gvars, kvars, svars, ovars, dvars>>
    \/ ParentSave /\ UNCHANGED <<wvars, ivars, cvars, fvars, lvars, mvars, gvars, kvars, svars, ovars, dvars>>
    \/ Load /\ UNCHANGED <<wvars, ivars, cvars, fvars, lvars, mvars, gvars, kvars, svars, ovars, dvars>>
    \/ ParentNew /\ UNCHANGED <<wvars, ivars, cvars, fvars, lvars, mvars, gvars, kvars, svars, ovars, dvars>>


(***************************************************************************)
(* deconstruct() of EmbeddedModelField (src/django_mongodb/fields/         *)
(* embedded_model.py), EmbeddedModelArrayField and                         *)
(* MultipleEmbeddedModelField (src/django_mongodb_backend/fields)          *)
(***************************************************************************)
PyBool(b) == [t |-> "bool", b |-> b]
PyClass(name) == [t |-> "class", name |-> name]
PyField(cls, embedded_model) == [t |-> "mfield", cls |-> cls, embedded_model |-> embedded_model]

\* d[key] = value
DictSet(d, key, value) == SetFields(d, key :> value)
\* del d[key]
DictDel(d, key) == [k \in DOMAIN d \ {key} |-> d[k]]

FieldClasses ==
    {"EmbeddedModelField", "EmbeddedModelArrayField", "MultipleEmbeddedModelField"}

ArrayClasses == {"EmbeddedModelArrayField", "MultipleEmbeddedModelField"}

\* the package and the module that define the class
PackageOf(cls) ==
    IF cls = "EmbeddedModelField" THEN "django_mongodb" ELSE "django_mongodb_backend"
ModuleOf(cls) ==
    CASE cls = "EmbeddedModelField" -> "embedded_model"
      [] cls = "EmbeddedModelArrayField" -> "embedded_model_array"
      [] OTHER -> "multiple_embedded_model"

\* a dotted path is the sequence of its names and dots
ClassPath(cls) == <<PackageOf(cls), ".", "fields", ".", ModuleOf(cls), ".", cls>>

RECURSIVE Replace(_, _, _)
\* path.replace(old, new)
Replace(path, old, new) ==
    IF Len(path) < Len(old) THEN path
    ELSE IF SubSeq(path, 1, Len(old)) = old
    THEN new \o Replace(SubSeq(path, Len(old) + 1, Len(path)), old, new)
    ELSE <<path[1]>> \o Replace(Tail(path), old, new)

\* the keyword of the embedded model in the constructor of the class
ModelKeyword(cls) == IF cls = "MultipleEmbeddedModelField" THEN "model" ELSE "embedded_model"

\* the keyword arguments the constructors know besides the model
OptionsOf(cls) == IF cls \in ArrayClasses THEN {"null", "max_size", "size"} ELSE {"null"}

Constructed(f) == [exc |-> NoExc, mfield |-> f]
NotConstructed(exc) == [exc |-> exc, mfield |-> PyNone]

\* a keyword argument, or its default when it is not given
Option(kwargs, key, default) == IF key \in DOMAIN kwargs THEN kwargs[key] ELSE default

\* cls(**kwargs): __init__ of the three classes; given is the model as the
\* caller gave it, embedded_model the attribute of the mfield itself and
\* base_embedded_model that of the base mfield of an array
NewField(cls, kwargs) ==
    IF ModelKeyword(cls) \notin DOMAIN kwargs THEN NotConstructed("TypeError")
    ELSE IF cls = "EmbeddedModelArrayField" /\ "size" \in DOMAIN kwargs
    THEN NotConstructed("ValueError")
    ELSE IF ~(DOMAIN kwargs \subseteq OptionsOf(cls) \cup {ModelKeyword(cls)})
    THEN NotConstructed("TypeError")
    ELSE Constructed(
            [cls |-> cls,
             given |-> kwargs[ModelKeyword(cls)],
             embedded_model |-> IF cls = "MultipleEmbeddedModelField" THEN PyNone
                                ELSE kwargs[ModelKeyword(cls)],
             base_embedded_model |-> IF cls \in ArrayClasses THEN kwargs[ModelKeyword(cls)]
                                     ELSE PyNone,
             null |-> Option(kwargs, "null", PyBool(FALSE)),
             max_size |-> Option(kwargs, "max_size", PyNone),
             size |-> Option(kwargs, "size", PyNone)])

\* _set_model / _resolve_lookup: a model given as a string is resolved to the
\* class once the mfield knows its model; for an array this is its base mfield
ResolveLookup(f) ==
    IF f.cls = "EmbeddedModelField"
    THEN [f EXCEPT !.embedded_model = IF @.t = "str" THEN PyClass(@.s) ELSE @]
    ELSE [f EXCEPT !.base_embedded_model = IF @.t = "str" THEN PyClass(@.s) ELSE @]

\* django's Field.deconstruct: the path of the class, no args, the options
\* that differ from their defaults
FieldDeconstruct(f) ==
    [path |-> ClassPath(f.cls), args |-> << >>,
     kwargs |-> IF f.null # PyBool(FALSE) THEN "null" :> f.null ELSE << >>]

\* ArrayField.deconstruct: base_field, and max_size and size when set
ArrayFieldDeconstruct(f) ==
    [FieldDeconstruct(f) EXCEPT
        !.kwargs = SetFields(SetFields(DictSet(@, "base_field",
                                               PyField("EmbeddedModelField", f.base_embedded_model)),
                                       IF f.max_size # PyNone THEN "max_size" :> f.max_size
                                       ELSE << >>),
                             IF f.size # PyNone THEN "size" :> f.size ELSE << >>)]

\* EmbeddedModelField.deconstruct after super().deconstruct(); d is its result
EmbeddedDeconstructed(f, d) ==
    [path |-> IF StartsWith(d.path, <<"django_mongodb", ".", "fields", ".", "embedded_model">>)
              THEN Replace(d.path, <<"django_mongodb", ".", "fields", ".", "embedded_model">>,
                           <<"django_mongodb", ".", "fields">>)
              ELSE d.path,
     args |-> d.args,
     kwargs |-> DictSet(d.kwargs, "embedded_model", f.embedded_model)]

\* mutant of EmbeddedArrayDeconstructed: base_field is left in kwargs
EmbeddedArrayDeconstructedKeepsBase(f, d) ==
    [path |-> IF d.path = ClassPath("EmbeddedModelArrayField")
              THEN <<"django_mongodb_backend", ".", "fields", ".", "EmbeddedModelArrayField">>
              ELSE d.path,
     args |-> d.args,
     kwargs |-> DictSet(d.kwargs, "embedded_model", f.embedded_model)]

\* EmbeddedModelArrayField.deconstruct after super().deconstruct()
EmbeddedArrayDeconstructed(f, d) ==
    [path |-> IF d.path = ClassPath("EmbeddedModelArrayField")
              THEN <<"django_mongodb_backend", ".", "fields", ".", "EmbeddedModelArrayField">>
              ELSE d.path,
     args |-> d.args,
     kwargs |-> DictDel(DictSet(d.kwargs, "embedded_model", f.embedded_model), "base_field")]

\* MultipleEmbeddedModelField.deconstruct after super().deconstruct()
MultipleDeconstructed(f, d) ==
    [path |-> IF d.path = ClassPath("MultipleEmbeddedModelField")
              THEN <<"django_mongodb_backend", ".", "fields", ".", "MultipleEmbeddedModelField">>
              ELSE d.path,
     args |-> d.args,
     kwargs |-> DictDel(SetFields(d.kwargs, ("model" :> f.base_embedded_model) @@
                                            ("size" :> f.size)),
                        "base_field")]

\* mfield.deconstruct() without the name
Deconstruct(f) ==
    CASE f.cls = "EmbeddedModelField" -> EmbeddedDeconstructed(f, FieldDeconstruct(f))
      [] f.cls = "EmbeddedModelArrayField" ->
            EmbeddedArrayDeconstructed(f, ArrayFieldDeconstruct(f))
      [] OTHER -> MultipleDeconstructed(f, ArrayFieldDeconstruct(f))

\* the models a caller embeds: by name or as the class
ModelRefs == {PyStr("Data"), PyClass("Data")}

\* the options a caller passes
OptionDicts ==
    { SetFields(SetFields(n, m), z) :
        n \in {<< >>, "null" :> PyBool(TRUE), "null" :> PyBool(FALSE)},
        m \in {<< >>, "max_size" :> PyInt(MaxSize)},
        z \in {<< >>, "size" :> PyInt(MaxSize), "size" :> PyNone} }

NoField == PyNone

FieldInit ==
    /\ mfield = NoField
    /\ flast = [op |-> "init", exc |-> NoExc, arg |-> PyNone, value |-> PyNone]

\* the mfield of a specification that declares none
FieldIdle == FieldInit

\* mfield = cls(model, **options)
Construct ==
    \E cls \in FieldClasses, model \in ModelRefs, options \in OptionDicts :
        \E r \in {NewField(cls, DictSet(options, ModelKeyword(cls), model))} :
            /\ mfield' = r.mfield
            /\ flast' = [op |-> "construct", exc |-> r.exc,
                         arg |-> DictSet(options, ModelKeyword(cls), model), value |-> r.mfield]

\* the mfield is added to a model and the model it names is loaded
Resolve ==
    /\ mfield # NoField
    /\ mfield' = ResolveLookup(mfield)
    /\ flast' = [op |-> "resolve", exc |-> NoExc, arg |-> mfield, value |-> PyNone]

\* mfield.deconstruct()
CallDeconstruct ==
    /\ mfield # NoField
    /\ flast' = [op |-> "deconstruct", exc |-> NoExc, arg |-> mfield, value |-> Deconstruct(mfield)]
    /\ UNCHANGED mfield

\* mfield = type(mfield)(*args, **kwargs) with the result of deconstruct()
Reconstruct ==
    /\ flast.op = "deconstruct"
    /\ \E r \in {NewField(mfield.cls, flast.value.kwargs)} :
           /\ mfield' = r.mfield
           /\ flast' = [op |-> "reconstruct", exc |-> r.exc, arg |-> flast.value,
                        value |-> IF r.exc = NoExc THEN Deconstruct(r.mfield) ELSE PyNone]

FieldNext ==
    \/ Construct /\ UNCHANGED <<wvars, evars, now, ivars, cvars, lvars, mvars, gvars, kvars, svars, ovars, dvars>>
    \/ Resolve /\ UNCHANGED <<wvars, evars, now, ivars, cvars, lvars, mvars, gvars, kvars, svars, ovars, dvars>>
    \/ CallDeconstruct /\ UNCHANGED <<wvars, evars, now, ivars, cvars, lvars, mvars, gvars, kvars, svars, ovars, dvars>>
    \/ Reconstruct /\ UNCHANGED <<wvars, evars, now, ivars, cvars, lvars, mvars, gvars, kvars, svars, ovars, dvars>>


(***************************************************************************)
(* EmbeddedModelArrayField.get_db_prep_value                               *)
(* (src/django_mongodb_backend/fields/embedded_model_array.py)             *)
(***************************************************************************)
\* a python list or tuple; kind is "list" or "tuple"
PySeq(kind, items) == [t |-> kind, items |-> items]
PyList(items) == PySeq("list", items)

\* Movie.reviews = EmbeddedModelArrayField(Review, null=True); its base field
\* is EmbeddedModelField(Review)
ReviewsField == [embedded_model |-> "EmbeddedModel", base_field |-> SimpleField]

ExpectedList == "Expected list of {model!r} instances, not {type!r}."
ExpectedInstance == "Expected instance of type {model!r}, not {type!r}."

Prepared(value, items) == [exc |-> NoExc, msg |-> "", value |-> value, items |-> items]
PrepRaised(msg, items) == [exc |-> "TypeError", msg |-> msg, value |-> PyNone, items |-> items]

RECURSIVE PrepItemsByPrepValue(_, _, _, _, _, _)
\* mutant of PrepItems: get_db_prep_value of the base field, which leaves a
\* model instance as it is
PrepItemsByPrepValue(base_field, items, i, t, out, seen) ==
    IF i > Len(items) THEN Prepared(PyList(out), seen)
    ELSE PrepItemsByPrepValue(base_field, items, i + 1, t, Append(out, items[i]),
                              Append(seen, items[i]))

RECURSIVE PrepItems(_, _, _, _, _, _)
\* [self.base_field.get_db_prep_save(i, connection) for i in value]: out is
\* the list built so far, seen the elements as the calls left them
PrepItems(base_field, items, i, t, out, seen) ==
    IF i > Len(items) THEN Prepared(PyList(out), seen)
    ELSE IF EmbGetDbPrepSave(base_field, items[i], t).exc # NoExc
    THEN PrepRaised(ExpectedInstance, seen \o SubSeq(items, i, Len(items)))
    ELSE PrepItems(base_field, items, i + 1, t,
                   Append(out, EmbGetDbPrepSave(base_field, items[i], t).value),
                   Append(seen, EmbGetDbPrepSave(base_field, items[i], t).inst))

\* EmbeddedModelArrayField.get_db_prep_value; the result carries the value
\* given as the calls left it
ArrayGetDbPrepValue(afield, value, t) ==
    IF value.t \in {"list", "tuple"}
    THEN [r \in {PrepItems(afield.base_field, value.items, 1, t, << >>, << >>)} |->
            [exc |-> r.exc, msg |-> r.msg, value |-> r.value,
             given |-> PySeq(value.t, r.items)]]
         [PrepItems(afield.base_field, value.items, 1, t, << >>, << >>)]
    ELSE IF value # PyNone
    THEN [exc |-> "TypeError", msg |-> ExpectedList, value |-> PyNone, given |-> value]
    ELSE [exc |-> NoExc, msg |-> "", value |-> value, given |-> value]

\* the elements a caller puts in the list
ArrayItems ==
    {PyNone, PyInt(42)} \cup
    {NewInstance("EmbeddedModel", "someint" :> n) : n \in {PyInt(5), PyStr("5")}}

RECURSIVE SeqsUpTo(_, _)
\* the sequences over S of length at most n
SeqsUpTo(S, n) ==
    IF n = 0 THEN {<< >>}
    ELSE SeqsUpTo(S, n - 1) \cup
         {Append(s, x) : s \in {q \in SeqsUpTo(S, n - 1) : Len(q) = n - 1}, x \in S}

\* the values a caller may assign to movie.reviews
ArrayValues ==
    {PyNone, PyInt(42)} \cup
    {PySeq(kind, items) : kind \in {"list", "tuple"}, items \in SeqsUpTo(ArrayItems, MaxItems)}

\* movie.reviews = value
ArrayAssign ==
    \E v \in ArrayValues :
        /\ obj' = v
        /\ elast' = [op |-> "array.assign", arg |-> v, exc |-> NoExc, msg |-> "",
                     value |-> PyNone, before |-> stored, at |-> now]
        /\ UNCHANGED <<stored, now>>

\* movie.save(): the field's get_db_prep_save calls get_db_prep_value, then
\* the value is stored
ArraySave ==
    /\ now < MaxClock
    /\ \E r \in {ArrayGetDbPrepValue(ReviewsField, obj, now + 1)} :
           /\ obj' = r.given
           /\ stored' = IF r.exc = NoExc THEN r.value ELSE stored
           /\ elast' = [op |-> "array.save", arg |-> obj, exc |-> r.exc, msg |-> r.msg,
                        value |-> r.value, before |-> stored, at |-> now + 1]
    /\ now' = now + 1

ArrayNext ==
    \/ ArrayAssign /\ UNCHANGED <<wvars, ivars, cvars, fvars, lvars, mvars, gvars, kvars, svars, ovars, dvars>>
    \/ ArraySave /\ UNCHANGED <<wvars, ivars, cvars, fvars, lvars, mvars, gvars, kvars, svars, ovars, dvars>>


(***************************************************************************)
(* Lookups through EmbeddedModelFields: EmbeddedModelField.get_transform   *)
(* and KeyTransform.get_transform (src/django_mongodb/fields/              *)
(* embedded_model.py), called by django's Query.build_lookup               *)
(***************************************************************************)
\* a field of a model of src/tests/model_fields_/models.py
LField(model, name, type, embedded_model) ==
    [model |-> model, name |-> name, type |-> type, embedded_model |-> embedded_model]

\* model._meta fields by name
FieldsOf(model) ==
    CASE model = "Book" ->
            ("name" :> LField("Book", "name", "CharField", "")) @@
            ("author" :> LField("Book", "author", "EmbeddedModelField", "Author"))
      [] model = "Author" ->
            ("name" :> LField("Author", "name", "CharField", "")) @@
            ("age" :> LField("Author", "age", "IntegerField", "")) @@
            ("address" :> LField("Author", "address", "EmbeddedModelField", "Address"))
      [] model = "Address" ->
            ("city" :> LField("Address", "city", "CharField", "")) @@
            ("state" :> LField("Address", "state", "CharField", ""))
      [] model = "EmbeddedModelFieldModel" ->
            ("simple" :> LField("EmbeddedModelFieldModel", "simple", "EmbeddedModelField",
                                "EmbeddedModel"))
      [] model = "EmbeddedModel" ->
            ("someint" :> LField("EmbeddedModel", "someint", "IntegerField", "")) @@
            ("auto_now" :> LField("EmbeddedModel", "auto_now", "DateTimeField", ""))
      [] OTHER -> << >>

IsEmbeddedModelField(f) == f.type = "EmbeddedModelField"

\* the transforms django registers for a field class
RegisteredTransforms(type) == IF type = "DateTimeField" THEN {"year"} ELSE {}

\* the lookups django registers for every field class
RegisteredLookups == {"exact", "lt"}

\* an expression on the left of a lookup: a column, a KeyTransform over it
\* with its ref_field and the keys so far, or a transform of django
Col(f) == [t |-> "col", ref_field |-> f, keys |-> << >>]
KeyTransform(key_name, ref_field, lhs) ==
    [t |-> "key", ref_field |-> ref_field, keys |-> Append(lhs.keys, key_name)]
DjangoTransform(name, lhs) ==
    [t |-> "transform", ref_field |-> LField("", name, "IntegerField", ""), keys |-> lhs.keys]

Resolved(lhs) == [exc |-> NoExc, model |-> "", name |-> "", lhs |-> lhs]
\* FieldDoesNotExist("<model> has no field named '<name>'")
FieldDoesNotExist(model, name) ==
    [exc |-> "FieldDoesNotExist", model |-> model, name |-> name, lhs |-> PyNone]
\* django's FieldError (Cannot resolve keyword / Unsupported lookup)
FieldError(name) == [exc |-> "FieldError", model |-> "", name |-> name, lhs |-> PyNone]

\* model._meta.get_field(name) followed by KeyTransformFactory(name, field)(lhs)
GetFieldTransform(model, name, lhs) ==
    IF name \in DOMAIN FieldsOf(model)
    THEN Resolved(KeyTransform(name, FieldsOf(model)[name], lhs))
    ELSE FieldDoesNotExist(model, name)

\* EmbeddedModelField.get_transform(name), applied to lhs
EmbGetTransform(f, name, lhs) ==
    IF name \in RegisteredTransforms(f.type) THEN Resolved(DjangoTransform(name, lhs))
    ELSE GetFieldTransform(f.embedded_model, name, lhs)

\* mutant of KeyGetTransform: a name that is no transform of a plain field is
\* taken as one more key
KeyGetTransformAnyKey(lhs, name) ==
    IF IsEmbeddedModelField(lhs.ref_field)
    THEN GetFieldTransform(lhs.ref_field.embedded_model, name, lhs)
    ELSE Resolved(KeyTransform(name, lhs.ref_field, lhs))

\* KeyTransform.get_transform(name), applied to lhs
KeyGetTransform(lhs, name) ==
    IF IsEmbeddedModelField(lhs.ref_field)
    THEN GetFieldTransform(lhs.ref_field.embedded_model, name, lhs)
    ELSE IF name \notin RegisteredTransforms(lhs.ref_field.type)
    THEN FieldDoesNotExist(lhs.ref_field.model, name)
    ELSE Resolved(KeyTransform(name, lhs.ref_field, lhs))

\* Query.try_transform(lhs, name): lhs.get_transform(name)(lhs)
TryTransform(lhs, name) ==
    CASE lhs.t = "key" -> KeyGetTransform(lhs, name)
      [] lhs.t = "col" /\ IsEmbeddedModelField(lhs.ref_field) ->
            EmbGetTransform(lhs.ref_field, name, lhs)
      [] OTHER ->
            IF name \in RegisteredTransforms(lhs.ref_field.type)
            THEN Resolved(DjangoTransform(name, lhs))
            ELSE FieldError(name)

RECURSIVE TryTransforms(_, _, _)
\* for name in transforms: lhs = self.try_transform(lhs, name)
TryTransforms(r, names, i) ==
    IF r.exc # NoExc \/ i > Len(names) THEN r
    ELSE TryTransforms(TryTransform(r.lhs, names[i]), names, i + 1)

Built(r, lookup_name) ==
    IF r.exc # NoExc THEN [r EXCEPT !.lhs = PyNone]
    ELSE [exc |-> NoExc, model |-> "", name |-> "",
          lhs |-> [keys |-> r.lhs.keys, lookup |-> lookup_name]]

\* Query.build_lookup(lookups, lhs, rhs) after the transforms but the last
\* name are applied: the last name is a lookup, or else a transform followed
\* by exact
BuildLookupLast(r, lookup_name) ==
    IF r.exc # NoExc THEN Built(r, lookup_name)
    ELSE IF lookup_name \in RegisteredLookups THEN Built(r, lookup_name)
    ELSE Built(TryTransform(r.lhs, lookup_name), "exact")

\* Query.build_lookup(lookups, lhs, rhs)
BuildLookup(lookups, lhs) ==
    IF lookups = << >> THEN Built(Resolved(lhs), "exact")
    ELSE BuildLookupLast(TryTransforms(Resolved(lhs), SubSeq(lookups, 1, Len(lookups) - 1), 1),
                         lookups[Len(lookups)])

\* Model.objects.filter(**{path: value}): path is the names between the "__"
BuildFilter(model, path) ==
    IF path[1] \notin DOMAIN FieldsOf(model) THEN Built(FieldError(path[1]), "")
    ELSE BuildLookup(Tail(path), Col(FieldsOf(model)[path[1]]))

\* the names a caller writes in a lookup path
PathNames ==
    {"author", "address", "city", "floor", "president", "simple", "auto_now", "year", "lt"}

RootModels == {"Book", "EmbeddedModelFieldModel"}

LookupPaths == SeqsUpTo(PathNames, MaxPath) \ {<< >>}

NoQuerySet == PyNone

LookupInit ==
    /\ lroot \in RootModels
    /\ lpath \in LookupPaths
    /\ lqs = NoQuerySet
    /\ lqueries = 0
    /\ llast = [op |-> "init", exc |-> NoExc, model |-> "", name |-> "", queries |-> 0]

\* the lookup state of a specification that builds no filter
LookupIdle ==
    /\ lroot = "Book"
    /\ lpath = << >>
    /\ lqs = NoQuerySet
    /\ lqueries = 0
    /\ llast = [op |-> "init", exc |-> NoExc, model |-> "", name |-> "", queries |-> 0]

\* qs = Model.objects.filter(**{path: value})
Filter ==
    \E r \in {BuildFilter(lroot, lpath)} :
        /\ lqs' = IF r.exc = NoExc THEN r.lhs ELSE lqs
        /\ llast' = [op |-> "filter", exc |-> r.exc, model |-> r.model, name |-> r.name,
                     queries |-> lqueries]
        /\ UNCHANGED <<lroot, lpath, lqueries>>

\* list(qs): the query runs
Fetch ==
    /\ lqs # NoQuerySet
    /\ lqueries < MaxQueries
    /\ lqueries' = lqueries + 1
    /\ llast' = [op |-> "fetch", exc |-> NoExc, model |-> "", name |-> "",
                 queries |-> lqueries + 1]
    /\ UNCHANGED <<lroot, lpath, lqs>>

LookupNext ==
    \/ Filter /\ UNCHANGED <<wvars, evars, now, ivars, cvars, fvars, mvars, gvars, kvars, svars, ovars, dvars>>
    \/ Fetch /\ UNCHANGED <<wvars, evars, now, ivars, cvars, fvars, mvars, gvars, kvars, svars, ovars, dvars>>


(***************************************************************************)
(* Lookups on the elements of an EmbeddedModelArrayField: EMFArrayExact,   *)
(* ArrayOverlap and the array KeyTransform                                 *)
(* (src/django_mongodb_backend/fields/embedded_model_array.py), and the    *)
(* aggregation operators of the server they are compiled to                *)
(***************************************************************************)
\* the value of a field that a document does not have
MqlMissing == [t |-> "missing"]

\* aggregation expressions
MqlLit(value) == [op |-> "lit", value |-> value]
\* "$<column>"
MqlField(column) == [op |-> "field", column |-> column]
\* "$$item.<key>"
MqlItem(key) == [op |-> "item", key |-> key]
MqlEq(a, b) == [op |-> "$eq", a |-> a, b |-> b]
MqlIn(a, b) == [op |-> "$in", a |-> a, b |-> b]
MqlMap(input, in) == [op |-> "$map", input |-> input, in |-> in]
MqlIfNull(a, b) == [op |-> "$ifNull", a |-> a, b |-> b]
MqlAnyElementTrue(a) == [op |-> "$anyElementTrue", a |-> a]

IsNullish(value) == value \in {PyNone, MqlMissing}

RECURSIVE MqlEval(_, _, _)
\* the value of an aggregation expression on a document; item is the
\* element $map is at
MqlEval(e, doc, item) ==
    CASE e.op = "lit" -> e.value
      [] e.op = "field" ->
            IF e.column \in DOMAIN doc.items THEN doc.items[e.column] ELSE MqlMissing
      [] e.op = "item" ->
            IF item.t = "dict" /\ e.key \in DOMAIN item.items THEN item.items[e.key]
            ELSE MqlMissing
      [] e.op = "$eq" -> PyBool(MqlEval(e.a, doc, item) = MqlEval(e.b, doc, item))
      [] e.op = "$in" ->
            PyBool(\E i \in 1..Len(MqlEval(e.b, doc, item).items) :
                      MqlEval(e.b, doc, item).items[i] = MqlEval(e.a, doc, item))
      [] e.op = "$map" ->
            IF IsNullish(MqlEval(e.input, doc, item)) THEN PyNone
            ELSE PyList([i \in 1..Len(MqlEval(e.input, doc, item).items) |->
                            MqlEval(e.in, doc, MqlEval(e.input, doc, item).items[i])])
      [] e.op = "$ifNull" ->
            IF IsNullish(MqlEval(e.a, doc, item)) THEN MqlEval(e.b, doc, item)
            ELSE MqlEval(e.a, doc, item)
      [] OTHER ->
            PyBool(\E i \in 1..Len(MqlEval(e.a, doc, item).items) :
                      MqlEval(e.a, doc, item).items[i] = PyBool(TRUE))

\* the left-hand side of a lookup: the array column, or the array
\* KeyTransform of a sub-field of its elements
ArrayCol(column) == [t |-> "col", column |-> column]
ArrayKeyTransform(key_name, column) == [t |-> "key", column |-> column, key_name |-> key_name]

\* KeyTransform.as_mql: (lhs_mql, inner_lhs_mql)
KeyTransformAsMql(lhs) == [lhs_mql |-> MqlField(lhs.column), inner_lhs_mql |-> MqlItem(lhs.key_name)]

MqlBuilt(mql) == [exc |-> NoExc, mql |-> mql]
MqlRaised(exc) == [exc |-> exc, mql |-> MqlLit(PyNone)]

\* EMFArrayExact.as_mql
ExactAsMql(lhs, rhs) ==
    IF lhs.t # "key" THEN MqlRaised("ValueError")
    ELSE MqlBuilt(MqlAnyElementTrue(MqlIfNull(
            MqlMap(KeyTransformAsMql(lhs).lhs_mql,
                   MqlEq(KeyTransformAsMql(lhs).inner_lhs_mql, MqlLit(rhs))),
            MqlLit(PyList(<< >>)))))

\* ArrayOverlap.process_rhs: the list is put in a list and each member
\* prepared; the prepared list is the only member
OverlapProcessRhs(rhs) == <<PyNone, <<rhs>>>>

\* query_utils.process_rhs: node.process_rhs, then the list of parameters
\* is undone for a lookup that is neither in nor range
ProcessRhs(rhs) == OverlapProcessRhs(rhs)[2][1]

\* mutant of OverlapAsMql: the sub-field is compared with the list
OverlapAsMqlEq(lhs, rhs) ==
    IF lhs.t # "key" THEN MqlRaised("ValueError")
    ELSE MqlBuilt(MqlAnyElementTrue(MqlIfNull(
            MqlMap(KeyTransformAsMql(lhs).lhs_mql,
                   MqlEq(KeyTransformAsMql(lhs).inner_lhs_mql, MqlLit(ProcessRhs(rhs)))),
            MqlLit(PyList(<< >>)))))

\* ArrayOverlap.as_mql
OverlapAsMql(lhs, rhs) ==
    IF lhs.t # "key" THEN MqlRaised("ValueError")
    ELSE MqlBuilt(MqlAnyElementTrue(MqlIfNull(
            MqlMap(KeyTransformAsMql(lhs).lhs_mql,
                   MqlIn(KeyTransformAsMql(lhs).inner_lhs_mql, MqlLit(ProcessRhs(rhs)))),
            MqlLit(PyList(<< >>)))))

LookupAsMql(lookup_name, lhs, rhs) ==
    IF lookup_name = "exact" THEN ExactAsMql(lhs, rhs) ELSE OverlapAsMql(lhs, rhs)

\* the document matches {"$expr": mql}
MqlMatches(r, doc) == r.exc = NoExc /\ MqlEval(r.mql, doc, PyNone) = PyBool(TRUE)

\* the values of the sub-field rating
Ratings == {PyInt(1), PyInt(2)}

\* the elements of the array reviews
Reviews == {PyDict("rating" :> v) : v \in Ratings \cup {PyNone}}

\* the documents of the collection: reviews missing, null or a list
MovieDocs ==
    {PyDict(<< >>), PyDict("reviews" :> PyNone)} \cup
    {PyDict("reviews" :> PyList(items)) : items \in SeqsUpTo(Reviews, MaxItems)}

\* what a filter is given on the right
LookupRhs(lookup_name) ==
    IF lookup_name = "exact" THEN Ratings
    ELSE {PyList(items) : items \in SeqsUpTo(Ratings, MaxValues)}

MovieInit ==
    /\ mdoc \in MovieDocs
    /\ mlast = [op |-> "init", lookup_name |-> "", lhs |-> ArrayCol("reviews"),
                rhs |-> PyNone, exc |-> NoExc, matched |-> FALSE]

\* the document of a specification that filters no array
MovieIdle ==
    /\ mdoc = PyDict(<< >>)
    /\ mlast = [op |-> "init", lookup_name |-> "", lhs |-> ArrayCol("reviews"),
                rhs |-> PyNone, exc |-> NoExc, matched |-> FALSE]

\* Movie.objects.filter(reviews__rating=v), filter(reviews__rating__overlap=[...])
\* and the same lookups on the array itself, compiled and run on the document
ArrayFilter ==
    \E lookup_name \in {"exact", "overlap"},
       lhs \in {ArrayCol("reviews"), ArrayKeyTransform("rating", "reviews")} :
        \E rhs \in LookupRhs(lookup_name) :
            \E r \in {LookupAsMql(lookup_name, lhs, rhs)} :
                /\ mlast' = [op |-> "filter", lookup_name |-> lookup_name, lhs |-> lhs,
                             rhs |-> rhs, exc |-> r.exc, matched |-> MqlMatches(r, mdoc)]
                /\ UNCHANGED mdoc

ArrayFilterNext ==
    \/ ArrayFilter /\ UNCHANGED <<wvars, evars, now, ivars, cvars, fvars, lvars, gvars, kvars, svars, ovars, dvars>>


(***************************************************************************)
(* clean() of EmbeddedModelArrayFormField and MultipleEmbeddedModelFormField*)
(* (src/django_mongodb_backend/forms/fields) over django's formsets        *)
(***************************************************************************)
FormFieldClasses == {"EmbeddedModelArrayFormField", "MultipleEmbeddedModelFormField"}

\* django.forms.formsets.DEFAULT_MAX_NUM
DefaultMaxNum == 1000

\* formset_factory(form, can_delete, max_num): validate_max is not given and
\* so is False; absolute_max is max_num + DEFAULT_MAX_NUM
FormsetFactory(can_delete, max_num) ==
    [can_delete |-> can_delete,
     max_num |-> IF max_num = PyNone THEN DefaultMaxNum ELSE max_num.i,
     validate_max |-> FALSE,
     absolute_max |-> (IF max_num = PyNone THEN DefaultMaxNum ELSE max_num.i) + DefaultMaxNum]

\* __init__(model, prefix, max_length): the field and its formset class
FormField(cls, model, max_length) ==
    [cls |-> cls, model |-> model, formset |-> FormsetFactory(TRUE, max_length)]

\* a submitted form: an extra form left empty, or a form whose data is valid
\* (cleaned is its cleaned data) or not (errors are its errors), with its
\* DELETE checkbox
EmptyForm == [kind |-> "empty", delete |-> FALSE, cleaned |-> << >>, errors |-> << >>]
ValidForm(cleaned, delete) ==
    [kind |-> "valid", delete |-> delete,
     cleaned |-> cleaned @@ ("DELETE" :> PyBool(delete)), errors |-> << >>]
InvalidForm(errors, delete) ==
    [kind |-> "invalid", delete |-> delete, cleaned |-> "DELETE" :> PyBool(delete),
     errors |-> errors]

\* BaseFormSet.forms: the forms up to absolute_max
FormsOf(formset, forms) ==
    SubSeq(forms, 1, IF Len(forms) < formset.absolute_max THEN Len(forms)
                     ELSE formset.absolute_max)

\* BaseFormSet._should_delete_form
ShouldDeleteForm(formset, form) == formset.can_delete /\ form.delete

\* BaseFormSet.deleted_forms
DeletedCount(formset, forms) ==
    Cardinality({i \in 1..Len(forms) : ShouldDeleteForm(formset, forms[i])})

TooManyForms(max_num) == <<"Please submit at most {num} forms.", max_num>>

\* BaseFormSet.non_form_errors() after full_clean
NonFormErrors(formset, forms) ==
    IF \/ /\ formset.validate_max
          /\ Len(FormsOf(formset, forms)) - DeletedCount(formset, FormsOf(formset, forms))
                > formset.max_num
       \/ Len(forms) > formset.absolute_max
    THEN <<TooManyForms(formset.max_num)>>
    ELSE << >>

\* BaseFormSet.errors: the errors of the forms that are not deleted
FormsetErrors(formset, forms) ==
    SelectSeq([i \in 1..Len(FormsOf(formset, forms)) |->
                  [skip |-> ShouldDeleteForm(formset, forms[i]), errors |-> forms[i].errors]],
              LAMBDA e : ~e.skip)

\* BaseFormSet.is_valid()
FormsetIsValid(formset, forms) ==
    /\ \A i \in 1..Len(FormsOf(formset, forms)) :
          ShouldDeleteForm(formset, forms[i]) \/ forms[i].kind # "invalid"
    /\ NonFormErrors(formset, forms) = << >>

\* BaseFormSet.cleaned_data
FormsetCleanedData(formset, forms) ==
    [i \in 1..Len(FormsOf(formset, forms)) |-> forms[i].cleaned]

\* data.get("DELETE", True) is true
DeleteOrEmpty(cleaned) == IF "DELETE" \in DOMAIN cleaned THEN cleaned["DELETE"].b ELSE TRUE

RECURSIVE CleanedInstancesWithDeleted(_, _, _, _)
\* mutant of CleanedInstances: a form marked DELETE is kept
CleanedInstancesWithDeleted(model, cleaned_data, i, out) ==
    IF i > Len(cleaned_data) THEN out
    ELSE IF "DELETE" \notin DOMAIN cleaned_data[i]
    THEN CleanedInstancesWithDeleted(model, cleaned_data, i + 1, out)
    ELSE CleanedInstancesWithDeleted(model, cleaned_data, i + 1,
            Append(out, PyInstance(model, TRUE, DictDel(cleaned_data[i], "DELETE"))))

RECURSIVE CleanedInstances(_, _, _, _)
\* the loop of clean() over formset.cleaned_data
CleanedInstances(model, cleaned_data, i, out) ==
    IF i > Len(cleaned_data) THEN out
    ELSE IF DeleteOrEmpty(cleaned_data[i])
    THEN CleanedInstances(model, cleaned_data, i + 1, out)
    ELSE CleanedInstances(model, cleaned_data, i + 1,
            Append(out, PyInstance(model, TRUE, DictDel(cleaned_data[i], "DELETE"))))

NotSubmitted == PyNone

\* the errors ValidationError is raised with
RaisedErrors(ff, forms) ==
    IF ff.cls = "MultipleEmbeddedModelFormField"
    THEN [form_errors |-> FormsetErrors(ff.formset, forms),
          non_form_errors |-> NonFormErrors(ff.formset, forms)]
    ELSE [form_errors |-> FormsetErrors(ff.formset, forms), non_form_errors |-> << >>]

\* clean(value) of both classes; value is NotSubmitted or the submitted forms
FormFieldClean(ff, value) ==
    IF value = NotSubmitted
    THEN [exc |-> NoExc, errors |-> RaisedErrors(ff, << >>), value |-> << >>]
    ELSE IF ~FormsetIsValid(ff.formset, value.items)
    THEN [exc |-> "ValidationError", errors |-> RaisedErrors(ff, value.items), value |-> << >>]
    ELSE [exc |-> NoExc, errors |-> RaisedErrors(ff, << >>),
          value |-> CleanedInstances(ff.model,
                                     FormsetCleanedData(ff.formset, value.items), 1, << >>)]

Required == "This field is required."
WholeNumber == "Enter a whole number."

\* the forms a user submits
SubmittedForms ==
    {EmptyForm} \cup
    {ValidForm(("title" :> PyStr(c)) @@ ("rating" :> PyInt(5)), d) :
        c \in {"Great!", "Okay"}, d \in BOOLEAN} \cup
    {InvalidForm(e, d) : e \in {<<Required>>, <<WholeNumber>>}, d \in BOOLEAN}

\* one form more than the largest max_length
MaxForms == MaxSize + 1

\* what clean() is given
SubmittedValues ==
    {NotSubmitted} \cup {PyList(forms) : forms \in SeqsUpTo(SubmittedForms, MaxForms) \ {<< >>}}

FormInit ==
    /\ ffield \in {FormField(cls, "Review", max_length) :
                      cls \in FormFieldClasses,
                      max_length \in {PyNone} \cup {PyInt(n) : n \in 1..MaxSize}}
    /\ fvalue \in SubmittedValues
    /\ fclean = [op |-> "init", exc |-> NoExc, errors |-> RaisedErrors(ffield, << >>),
                 value |-> << >>]

\* the form field of a specification that cleans no form
FormIdle ==
    /\ ffield = FormField("EmbeddedModelArrayFormField", "Review", PyNone)
    /\ fvalue = NotSubmitted
    /\ fclean = [op |-> "init", exc |-> NoExc, errors |-> RaisedErrors(ffield, << >>),
                 value |-> << >>]

\* field.clean(value)
Clean ==
    \E r \in {FormFieldClean(ffield, fvalue)} :
        /\ fclean' = [op |-> "clean", exc |-> r.exc, errors |-> r.errors, value |-> r.value]
        /\ UNCHANGED <<ffield, fvalue>>

FormNext ==
    \/ Clean /\ UNCHANGED <<wvars, evars, now, ivars, cvars, fvars, lvars, mvars, kvars, svars, ovars, dvars>>


(***************************************************************************)
(* The system check of the indexes: check_vector_search_indexes            *)
(* (src/django_mongodb_backend/checks.py)                                  *)
(***************************************************************************)
\* SearchIndex(fields=[...]) and VectorSearchIndex(fields=[...],
\* similarities=[...]); VectorSearchIndex is a subclass of SearchIndex
SearchIndex == [cls |-> "SearchIndex", similarities |-> << >>]
VectorSearchIndex(similarities) == [cls |-> "VectorSearchIndex", similarities |-> similarities]

\* isinstance(model_index, VectorSearchIndex)
IsVectorSearchIndex(model_index) == model_index.cls = "VectorSearchIndex"

\* a model with its _meta.indexes
CheckedModel(name, indexes) == [name |-> name, indexes |-> indexes]

\* model._meta.indexes[i], the obj of a message
IndexObj(model, i) == [model |-> model.name, index |-> i]

\* checks.Warning(..., id="django_mongodb_backend.indexes.<cls>.W001")
CheckWarning(cls, code, index_obj) ==
    [level |-> "Warning", prefix |-> cls, code |-> code, obj |-> index_obj, arg |-> ""]
\* checks.Error(..., id="django_mongodb_backend.indexes.<cls>.E004")
CheckError(cls, code, index_obj, arg) ==
    [level |-> "Error", prefix |-> cls, code |-> code, obj |-> index_obj, arg |-> arg]

ValidSimilarities == {"cosine", "dotProduct", "euclidean"}

\* one E004 for each similarity that is no valid function, in their order
SimilarityErrors(model_index, index_obj) ==
    [k \in 1..Len(SelectSeq(model_index.similarities, LAMBDA s : s \notin ValidSimilarities)) |->
        CheckError("VectorSearchIndex", "E004", index_obj,
                   SelectSeq(model_index.similarities, LAMBDA s : s \notin ValidSimilarities)[k])]

\* model_index.check(model, connection); index_obj is the index
IndexCheck(model_index, index_obj, conn) ==
    IF ~conn.supports_atlas_search
    THEN <<CheckWarning(model_index.cls, "W001", index_obj)>>
    ELSE IF IsVectorSearchIndex(model_index) THEN SimilarityErrors(model_index, index_obj)
    ELSE << >>

\* router.allow_migrate_model(db, model)
AllowMigrateModel(router, db, model) == <<db, model.name>> \notin router

RECURSIVE CheckModelIndexes(_, _, _, _)
\* for model_index in model._meta.indexes
CheckModelIndexes(model, conn, i, errors) ==
    IF i > Len(model.indexes) THEN errors
    ELSE IF ~IsVectorSearchIndex(model.indexes[i])
    THEN CheckModelIndexes(model, conn, i + 1, errors)
    ELSE CheckModelIndexes(model, conn, i + 1,
            errors \o IndexCheck(model.indexes[i], IndexObj(model, i), conn))

RECURSIVE CheckModelDatabases(_, _, _, _, _, _)
\* for db in databases or ()
CheckModelDatabases(model, databases, router, connections, d, errors) ==
    IF d > Len(databases) THEN errors
    ELSE IF ~AllowMigrateModel(router, databases[d], model)
    THEN CheckModelDatabases(model, databases, router, connections, d + 1, errors)
    ELSE CheckModelDatabases(model, databases, router, connections, d + 1,
            CheckModelIndexes(model, connections[databases[d]], 1, errors))

RECURSIVE CheckModelsDatabaseFirst(_, _, _, _, _, _)
\* mutant of CheckModels: the errors of a model come before those gathered
\* so far
CheckModelsDatabaseFirst(models, databases, router, connections, m, errors) ==
    IF m > Len(models) THEN errors
    ELSE CheckModelsDatabaseFirst(models, databases, router, connections, m + 1,
            CheckModelDatabases(models[m], databases, router, connections, 1, << >>) \o errors)

RECURSIVE CheckModels(_, _, _, _, _, _)
\* for model in models
CheckModels(models, databases, router, connections, m, errors) ==
    IF m > Len(models) THEN errors
    ELSE CheckModels(models, databases, router, connections, m + 1,
            CheckModelDatabases(models[m], databases, router, connections, 1, errors))

NoDatabases == PyNone

\* check_vector_search_indexes(app_configs, databases)
CheckVectorSearchIndexes(models, databases, router, connections) ==
    CheckModels(models, IF databases = NoDatabases THEN << >> ELSE databases.items,
                router, connections, 1, << >>)

\* the indexes a model declares
DeclaredIndexes ==
    {SearchIndex, VectorSearchIndex(<<"cosine">>), VectorSearchIndex(<<"sum">>),
     VectorSearchIndex(<<"sum", "dotProduct", "tangh">>)}

\* the models of the apps, in the order of get_models()
AppModels ==
    {<<CheckedModel("Article", a), CheckedModel("Comment", c)>> :
        a \in SeqsUpTo(DeclaredIndexes, MaxIndexes), c \in SeqsUpTo(DeclaredIndexes, MaxIndexes)}

\* the databases run_checks is given
DatabaseLists ==
    {NoDatabases, PyList(<<"default">>), PyList(<<"default", "other">>),
     PyList(<<"other", "default">>)}

\* the (database, model) pairs a router refuses
Routers ==
    {{}, {<<"other", "Article">>}, {<<"default", "Comment">>, <<"other", "Comment">>},
     {<<"default", "Article">>, <<"default", "Comment">>}}

\* connections[db].features
ConnectionFeatures ==
    {("default" :> [supports_atlas_search |-> s]) @@ ("other" :> [supports_atlas_search |-> o]) :
        s \in BOOLEAN, o \in BOOLEAN}

ChecksInit ==
    /\ kmodels \in AppModels
    /\ kdatabases \in DatabaseLists
    /\ krouter \in Routers
    /\ kconnections \in ConnectionFeatures
    /\ klast = [op |-> "init", errors |-> << >>]

\* the models of a specification that runs no check
ChecksIdle ==
    /\ kmodels = <<CheckedModel("Article", << >>), CheckedModel("Comment", << >>)>>
    /\ kdatabases = NoDatabases
    /\ krouter = {}
    /\ kconnections = ("default" :> [supports_atlas_search |-> TRUE]) @@
                      ("other" :> [supports_atlas_search |-> TRUE])
    /\ klast = [op |-> "init", errors |-> << >>]

\* checks.run_checks(app_configs=..., databases=...)
RunChecks ==
    /\ klast' = [op |-> "run_checks",
                 errors |-> CheckVectorSearchIndexes(kmodels, kdatabases, krouter, kconnections)]
    /\ UNCHANGED <<kmodels, kdatabases, krouter, kconnections>>

ChecksNext ==
    \/ RunChecks /\ UNCHANGED <<wvars, evars, now, ivars, cvars, fvars, lvars, mvars, gvars, svars, ovars, dvars>>


(***************************************************************************)
(* SQLCompiler.execute_sql, _make_result and cursor_iter                   *)
(* (src/django_mongodb/compiler.py)                                        *)
(***************************************************************************)
\* django.db.models.sql.constants: MULTI, SINGLE and CURSOR
ResultTypes == {"multi", "single", "cursor"}

\* a column of get_columns(): (name, col), of col only its alias
Column(name, alias) == [name |-> name, alias |-> alias]

\* entity.get(key, default)
DictGet(entity, key, default) == IF key \in DOMAIN entity THEN entity[key] ELSE default

\* the object _make_result reads a column from: the related object when the
\* alias of the column is another collection's
ResultSource(entity, collection_name, col) ==
    IF col.alias # PyNone /\ col.alias # PyStr(collection_name)
    THEN DictGet(entity, col.alias.s, << >>)
    ELSE entity

RECURSIVE MakeResultFrom(_, _, _, _, _)
\* the loop of _make_result over columns
MakeResultFrom(entity, collection_name, columns, k, result) ==
    IF k > Len(columns) THEN result
    ELSE MakeResultFrom(entity, collection_name, columns, k + 1,
            Append(result, DictGet(ResultSource(entity, collection_name, columns[k]),
                                   columns[k].name, PyNone)))

\* SQLCompiler._make_result(entity, columns)
MakeResult(entity, collection_name, columns) ==
    MakeResultFrom(entity, collection_name, columns, 1, << >>)

RECURSIVE CursorIterDropsLast(_, _, _, _, _, _, _)
\* mutant of CursorIter: the chunk that is not full is never yielded
CursorIterDropsLast(rows, i, chunk, chunk_size, collection_name, columns, out) ==
    IF i > Len(rows) THEN out
    ELSE IF Len(chunk) + 1 = chunk_size
    THEN CursorIterDropsLast(rows, i + 1, << >>, chunk_size, collection_name, columns,
            Append(out, Append(chunk, MakeResult(rows[i], collection_name, columns))))
    ELSE CursorIterDropsLast(rows, i + 1,
            Append(chunk, MakeResult(rows[i], collection_name, columns)),
            chunk_size, collection_name, columns, out)

RECURSIVE CursorIterSkipsEmpty(_, _, _, _, _, _, _)
\* mutant of CursorIter: the last chunk is not yielded when it is empty
CursorIterSkipsEmpty(rows, i, chunk, chunk_size, collection_name, columns, out) ==
    IF i > Len(rows) THEN IF chunk = << >> THEN out ELSE Append(out, chunk)
    ELSE IF Len(chunk) + 1 = chunk_size
    THEN CursorIterSkipsEmpty(rows, i + 1, << >>, chunk_size, collection_name, columns,
            Append(out, Append(chunk, MakeResult(rows[i], collection_name, columns))))
    ELSE CursorIterSkipsEmpty(rows, i + 1,
            Append(chunk, MakeResult(rows[i], collection_name, columns)),
            chunk_size, collection_name, columns, out)

RECURSIVE CursorIter(_, _, _, _, _, _, _)
\* SQLCompiler.cursor_iter: the chunks it yields from row i on, after out
CursorIter(rows, i, chunk, chunk_size, collection_name, columns, out) ==
    IF i > Len(rows) THEN Append(out, chunk)
    ELSE IF Len(chunk) + 1 = chunk_size
    THEN CursorIter(rows, i + 1, << >>, chunk_size, collection_name, columns,
            Append(out, Append(chunk, MakeResult(rows[i], collection_name, columns))))
    ELSE CursorIter(rows, i + 1,
            Append(chunk, MakeResult(rows[i], collection_name, columns)),
            chunk_size, collection_name, columns, out)

\* SQLCompiler.get_count() of a query that is not sliced; b is what
\* build_query() did and rows the documents the query matches
GetCount(b, rows) ==
    IF b.exc = EmptyResultSet THEN [exc |-> NoError, count |-> 0]
    ELSE IF b.exc # NoError THEN [exc |-> b.exc, count |-> 0]
    ELSE [exc |-> NoError, count |-> Len(rows)]

\* the values execute_sql returns: a list, an iterator over a list, the
\* generator of cursor_iter (nothing is read until it is iterated), or None
PyIter(items) == [t |-> "iter", items |-> items]
PyGenerator == [t |-> "generator"]

Returned(value, opened, read) == [exc |-> NoError, value |-> value, opened |-> opened, read |-> read]
SelectRaised(exc) == [exc |-> exc, value |-> PyNone, opened |-> 0, read |-> 0]

\* execute_sql after the test for QuerySet.count(); b is what build_query did
SelectBuilt(b, result_type, chunked_fetch, chunk_size, collection_name, columns, rows) ==
    IF b.exc = EmptyResultSet
    THEN Returned(IF result_type = "multi" THEN PyIter(<< >>) ELSE PyNone, 0, 0)
    ELSE IF b.exc # NoError THEN SelectRaised(b.exc)
    ELSE IF result_type = "single"
    THEN IF rows = << >> THEN Returned(PyNone, 1, 0)
         ELSE Returned(PyList(MakeResult(rows[1], collection_name, columns)), 1, 1)
    ELSE IF ~chunked_fetch
    THEN Returned(PyList(CursorIter(rows, 1, << >>, chunk_size, collection_name, columns,
                                    << >>)), 1, Len(rows))
    ELSE Returned(PyGenerator, 1, 0)

\* the count query of execute_sql; c is what get_count() did
SelectCounted(c) ==
    IF c.exc # NoError THEN SelectRaised(c.exc)
    ELSE Returned(PyList(<<PyInt(c.count)>>), 0, 0)

\* SQLCompiler.execute_sql(result_type, chunked_fetch, chunk_size); columns is
\* what get_columns() returns and rows the documents of the cursor
SelectExecuteSql(query, default_cols, result_type, chunked_fetch, chunk_size, columns, rows) ==
    IF query.annotations = ("__count" :> "Count")
    THEN SelectCounted(GetCount(BuildQuery(query, "select", NoColumns), rows))
    ELSE SelectBuilt(BuildQuery(query, "select",
                                IF query.annotations # NoAnnotations \/ ~default_cols
                                THEN Columns(columns) ELSE NoColumns),
                     result_type, chunked_fetch, chunk_size, query.collection, columns, rows)

\* the documents of the collection, with and without a related object
Entities ==
    {("_id" :> PyInt(1)) @@ ("foo" :> PyInt(1)),
     ("_id" :> PyInt(2)) @@ ("u" :> ("foo" :> PyInt(5)))}

\* what get_columns() returns
ColumnLists ==
    {<<Column("_id", PyNone)>>,
     <<Column("_id", PyStr("c")), Column("foo", PyStr("c")), Column("foo", PyStr("u"))>>}

\* the queries execute_sql is given
CountQueries ==
    { Query("c", d, NoInner, a, {}, w, BaseAlias, << >>, << >>) :
        d \in BOOLEAN, w \in Wheres,
        a \in {NoAnnotations, "__count" :> "Count", "n" :> "Count",
               ("__count" :> "Count") @@ ("n" :> "Count")} }

NoGenerator == [active |-> FALSE, chunk_size |-> 1, columns |-> << >>, yielded |-> << >>,
                done |-> FALSE]

ExecuteInit ==
    /\ squery \in CountQueries
    /\ srows \in IF squery.where = "EmptyResultSet" THEN {<< >>}
                 ELSE SeqsUpTo(Entities, MaxDocs)
    /\ sgen = NoGenerator
    /\ slast = [op |-> "init", result_type |-> "multi", chunked_fetch |-> FALSE,
                chunk_size |-> 1, columns |-> << >>, exc |-> NoError, value |-> PyNone,
                opened |-> 0, read |-> 0]

\* the compiler of a specification that selects nothing
ExecuteIdle ==
    /\ squery = Query("c", FALSE, NoInner, NoAnnotations, {}, "FullResultSet", BaseAlias,
                      << >>, << >>)
    /\ srows = << >>
    /\ sgen = NoGenerator
    /\ slast = [op |-> "init", result_type |-> "multi", chunked_fetch |-> FALSE,
                chunk_size |-> 1, columns |-> << >>, exc |-> NoError, value |-> PyNone,
                opened |-> 0, read |-> 0]

\* compiler.execute_sql(result_type, chunked_fetch, chunk_size)
Execute ==
    \E result_type \in ResultTypes, chunked_fetch \in BOOLEAN, chunk_size \in 1..MaxChunk,
       columns \in ColumnLists, default_cols \in BOOLEAN :
        \E r \in {SelectExecuteSql(squery, default_cols, result_type, chunked_fetch,
                                   chunk_size, columns, srows)} :
            /\ slast' = [op |-> "execute_sql", result_type |-> result_type,
                         chunked_fetch |-> chunked_fetch, chunk_size |-> chunk_size,
                         columns |-> columns, exc |-> r.exc, value |-> r.value,
                         opened |-> r.opened, read |-> r.read]
            /\ sgen' = IF r.value = PyGenerator
                       THEN [active |-> TRUE, chunk_size |-> chunk_size, columns |-> columns,
                             yielded |-> << >>, done |-> FALSE]
                       ELSE NoGenerator
            /\ UNCHANGED <<squery, srows>>

\* next(result) on the generator execute_sql returned: one more chunk of
\* cursor_iter, or StopIteration after the last
NextChunk ==
    /\ sgen.active /\ ~sgen.done
    /\ \E chunks \in {CursorIter(srows, 1, << >>, sgen.chunk_size, squery.collection,
                                 sgen.columns, << >>)} :
           IF Len(sgen.yielded) < Len(chunks)
           THEN /\ sgen' = [sgen EXCEPT !.yielded = Append(@, chunks[Len(@) + 1])]
                /\ slast' = [slast EXCEPT !.op = "next",
                                          !.read = IF Len(sgen.yielded) + 1 = Len(chunks)
                                                   THEN Len(srows)
                                                   ELSE (Len(sgen.yielded) + 1) * sgen.chunk_size]
           ELSE /\ sgen' = [sgen EXCEPT !.done = TRUE]
                /\ slast' = [slast EXCEPT !.op = "stop"]
    /\ UNCHANGED <<squery, srows>>

ExecuteNext ==
    \/ Execute /\ UNCHANGED <<wvars, evars, now, ivars, cvars, fvars, lvars, mvars, gvars, kvars, ovars, dvars>>
    \/ NextChunk /\ UNCHANGED <<wvars, evars, now, ivars, cvars, fvars, lvars, mvars, gvars, kvars, ovars, dvars>>


(***************************************************************************)
(* SQLCompiler.get_count and has_results (src/django_mongodb/compiler.py)  *)
(* as QuerySet.count() and QuerySet.exists() reach them                    *)
(***************************************************************************)
NoMark == PyNone

\* the inner_query of the AggregateQuery that Query.get_aggregation() builds
\* for a sliced query: a clone of the query, with its filter and its limits
SlicedQuery(where, low_mark, high_mark) ==
    [t |-> "Query", distinct |-> FALSE, extra |-> {}, annotations |-> NoAnnotations,
     where |-> where, low_mark |-> low_mark, high_mark |-> high_mark]

\* the query QuerySet.count() hands to the compiler: the query itself when it
\* is not sliced, else an AggregateQuery (no filter of its own) around it
CountQueryOf(where, low_mark, high_mark) ==
    IF low_mark = 0 /\ high_mark = NoMark
    THEN Query("c", FALSE, NoInner, "__count" :> "Count", {}, where, BaseAlias, << >>, << >>)
    ELSE Query("c", FALSE, SlicedQuery(where, low_mark, high_mark), "__count" :> "Count", {},
               "FullResultSet", BaseAlias, << >>, << >>)

\* the query QuerySet.exists() hands to the compiler: Query.exists() clones
\* the query, limits it to one row and annotates it with Value(1)
ExistsQueryOf(where, low_mark, high_mark) ==
    Query("c", FALSE, NoInner, "a" :> "Value", {}, where, BaseAlias, << >>, << >>)
        @@ [low_mark |-> low_mark, high_mark |-> PyInt(low_mark + 1)]

\* inner_query.low_mark if inner_query else 0
LowMark(cq) == IF cq.inner_query # NoInner THEN cq.inner_query.low_mark ELSE 0

\* inner_query.high_mark if inner_query else None
HighMark(cq) == IF cq.inner_query # NoInner THEN cq.inner_query.high_mark ELSE NoMark

\* kwargs of get_count
CountKwargs(cq, check_exists) ==
    [skip |-> IF LowMark(cq) > 0 THEN PyInt(LowMark(cq)) ELSE PyNone,
     limit |-> IF check_exists THEN PyInt(1)
               ELSE IF HighMark(cq) # NoMark THEN PyInt(HighMark(cq).i - LowMark(cq))
               ELSE PyNone]

\* MongoQuery.count(**kwargs): collection.count_documents(mongo_query, skip=,
\* limit=) over n matching documents
MongoQueryCount(n, kwargs) ==
    LET skipped == IF kwargs.skip = PyNone THEN n
                   ELSE IF n > kwargs.skip.i THEN n - kwargs.skip.i ELSE 0
    IN  IF kwargs.limit # PyNone /\ kwargs.limit.i < skipped THEN kwargs.limit.i ELSE skipped

\* `return self.build_query().count(**kwargs)` and its except clause; b is
\* what build_query() did
CountBuilt(b, coll, kwargs) ==
    IF b.exc = EmptyResultSet THEN [exc |-> NoError, count |-> 0, kwargs |-> kwargs]
    ELSE IF b.exc # NoError THEN [exc |-> b.exc, count |-> 0, kwargs |-> kwargs]
    ELSE [exc |-> NoError, kwargs |-> kwargs,
          count |-> MongoQueryCount(Cardinality(Matched(coll, b.mongo_query)), kwargs)]

\* SQLCompiler.get_count(check_exists) of any query
GetCountOf(cq, check_exists, coll) ==
    CountBuilt(BuildQuery(cq, "select", NoColumns), coll, CountKwargs(cq, check_exists))

\* SQLCompiler.has_results()
HasResults(cq, coll) == GetCountOf(cq, TRUE, coll).count # 0

\* the documents of the collection that is counted
CountedDocs == {Doc(1, 1, 0), Doc(2, 0, 0), Doc(3, 1, 0)}

\* the slices [low:high] of a queryset, high > low or absent
Slices ==
    { <<low, high>> \in (0..MaxMark) \X ({NoMark} \cup {PyInt(h) : h \in 1..(MaxMark + 1)}) :
        high = NoMark \/ high.i > low }

CountInit ==
    /\ cquery = Query("c", FALSE, NoInner, NoAnnotations, {}, "FullResultSet", BaseAlias,
                      << >>, << >>)
    /\ colls \in { "c" :> docs : docs \in SUBSET CountedDocs }
    /\ ccalls = 0
    /\ clast = [op |-> "init", where |-> "FullResultSet", low |-> 0, high |-> NoMark,
                exc |-> NoError, kwargs |-> [skip |-> PyNone, limit |-> PyNone],
                value |-> PyNone]

\* Model.objects.filter(where)[low:high].count()
Count ==
    \E where \in Wheres, slice \in Slices :
        \E cq \in {CountQueryOf(where, slice[1], slice[2])} :
            \E r \in {GetCountOf(cq, FALSE, colls["c"])} :
                /\ cquery' = cq
                /\ clast' = [op |-> "count", where |-> where, low |-> slice[1],
                             high |-> slice[2], exc |-> r.exc, kwargs |-> r.kwargs,
                             value |-> PyInt(r.count)]
                /\ UNCHANGED <<colls, ccalls>>

\* Model.objects.filter(where)[low:high].exists()
Exists ==
    \E where \in Wheres, slice \in Slices :
        \E cq \in {ExistsQueryOf(where, slice[1], slice[2])} :
            /\ cquery' = cq
            /\ clast' = [op |-> "exists", where |-> where, low |-> slice[1],
                         high |-> slice[2], exc |-> NoError,
                         kwargs |-> CountKwargs(cq, TRUE),
                         value |-> PyBool(HasResults(cq, colls["c"]))]
            /\ UNCHANGED <<colls, ccalls>>

CountNext ==
    \/ Count /\ UNCHANGED <<wvars, evars, now, ivars, fvars, lvars, mvars, gvars, kvars, svars, ovars, dvars>>
    \/ Exists /\ UNCHANGED <<wvars, evars, now, ivars, fvars, lvars, mvars, gvars, kvars, svars, ovars, dvars>>


(***************************************************************************)
(* SQLCompiler._get_ordering (src/django_mongodb/compiler.py)              *)
(***************************************************************************)
\* an entry of an ordering: a string such as "foo", "-foo" or "?" (its
\* characters grouped into a sign and a name), or an expression
OrderName(chars) == [t |-> "name", chars |-> chars]
ExprF(name) == [t |-> "F", name |-> name]
ExprFunc == [t |-> "Func"]
OrderBy(expression, descending) ==
    [t |-> "OrderBy", expression |-> expression, descending |-> descending]

RandomNotSupported == NotSupportedError("Randomized ordering isn't supported by MongoDB.")
OrderByNotSupported == NotSupportedError("order_by() expression not supported.")

\* hasattr(order, "resolve_expression")
HasResolveExpression(order) == order.t # "name"

\* ORDER_DIR[...][0]: "ASC" if standard_ordering else "DESC"
DefaultOrder(standard_ordering) == IF standard_ordering THEN "ASC" ELSE "DESC"

\* django's find_ordering_name(order, opts, default_order)[0]: get_order_dir
\* reads the sign of the name, and the entry is an OrderBy of the field
FindOrderingName(order, default_order) ==
    IF Head(order.chars) = "-"
    THEN OrderBy(ExprF(Tail(order.chars)[1]), default_order = "ASC")
    ELSE OrderBy(ExprF(Head(order.chars)), default_order = "DESC")

\* `order if isinstance(order, OrderBy) else order.asc()`
AsOrderBy(order) == IF order.t = "OrderBy" THEN order ELSE OrderBy(order, FALSE)

\* orderby.expression.as_mql(): "$<column>" of the field, reached through
\* an embedded model for simple__someint, or a dict for a database function
ExpressionAsMql(expression) ==
    IF expression.t = "Func" THEN [t |-> "dict"]
    ELSE [t |-> "str",
          chars |-> CASE expression.name \in {"pk", "id"} -> <<"$", "_id">>
                      [] expression.name = "simple__someint" -> <<"$", "simple.someint">>
                      [] OTHER -> <<"$", expression.name>>]

\* column.removeprefix("$")
RemovePrefix(chars) == IF chars # << >> /\ Head(chars) = "$" THEN Tail(chars) ELSE chars

\* mutant of OrderingOf: an expression of a reversed query is not inverted
OrderingOfKeepsExpressions(order, standard_ordering) ==
    IF HasResolveExpression(order)
    THEN [orderby |-> AsOrderBy(order), ascending |-> ~AsOrderBy(order).descending]
    ELSE [orderby |-> FindOrderingName(order, DefaultOrder(standard_ordering)),
          ascending |-> ~FindOrderingName(order, DefaultOrder(standard_ordering)).descending]

\* the orderby and the ascending flag the loop computes for an entry
OrderingOf(order, standard_ordering) ==
    IF HasResolveExpression(order)
    THEN LET ascending == ~AsOrderBy(order).descending
         IN  [orderby |-> AsOrderBy(order),
              ascending |-> IF ~standard_ordering THEN ~ascending ELSE ascending]
    ELSE [orderby |-> FindOrderingName(order, DefaultOrder(standard_ordering)),
          ascending |-> ~FindOrderingName(order, DefaultOrder(standard_ordering)).descending]

Ordered(value) == [exc |-> NoError, value |-> value]
OrderingRaised(exc) == [exc |-> exc, value |-> PyNone]

RECURSIVE OrderingLoopAddsAgain(_, _, _, _, _)
\* mutant of OrderingLoop: a column that was seen is added again
OrderingLoopAddsAgain(ordering, i, standard_ordering, column_ordering, columns_seen) ==
    IF i > Len(ordering) THEN Ordered(PyList(column_ordering))
    ELSE IF ordering[i] = OrderName(<<"?">>) THEN OrderingRaised(RandomNotSupported)
    ELSE LET o == OrderingOf(ordering[i], standard_ordering)
             column == ExpressionAsMql(o.orderby.expression)
         IN  IF column.t = "dict" THEN OrderingRaised(OrderByNotSupported)
             ELSE OrderingLoopAddsAgain(ordering, i + 1, standard_ordering,
                         Append(column_ordering,
                                [column |-> RemovePrefix(column.chars),
                                 ascending |-> o.ascending]),
                         columns_seen \cup {RemovePrefix(column.chars)})

RECURSIVE OrderingLoop(_, _, _, _, _)
\* `for order in ordering` of _get_ordering
OrderingLoop(ordering, i, standard_ordering, column_ordering, columns_seen) ==
    IF i > Len(ordering) THEN Ordered(PyList(column_ordering))
    ELSE IF ordering[i] = OrderName(<<"?">>) THEN OrderingRaised(RandomNotSupported)
    ELSE LET o == OrderingOf(ordering[i], standard_ordering)
             column == ExpressionAsMql(o.orderby.expression)
         IN  IF column.t = "dict" THEN OrderingRaised(OrderByNotSupported)
             ELSE IF RemovePrefix(column.chars) \notin columns_seen
             THEN OrderingLoop(ordering, i + 1, standard_ordering,
                               Append(column_ordering,
                                      [column |-> RemovePrefix(column.chars),
                                       ascending |-> o.ascending]),
                               columns_seen \cup {RemovePrefix(column.chars)})
             ELSE OrderingLoop(ordering, i + 1, standard_ordering, column_ordering,
                               columns_seen)

\* `self.query.order_by or opts.ordering if self.query.default_ordering else
\* self.query.order_by`
EffectiveOrdering(q) ==
    IF q.default_ordering
    THEN IF q.order_by # << >> THEN q.order_by ELSE q.meta_ordering
    ELSE q.order_by

\* SQLCompiler._get_ordering()
GetOrdering(q) ==
    IF EffectiveOrdering(q) = << >> THEN Ordered(PyBool(q.standard_ordering))
    ELSE OrderingLoop(EffectiveOrdering(q), 1, q.standard_ordering, << >>, {})

\* the entries of the orderings
OrderEntries ==
    { OrderName(<<"foo">>), OrderName(<<"-", "foo">>), OrderName(<<"pk">>),
      OrderName(<<"-", "id">>), OrderName(<<"-", "simple__someint">>), OrderName(<<"?">>),
      ExprF("foo"), OrderBy(ExprF("foo"), TRUE), OrderBy(ExprF("id"), FALSE),
      OrderBy(ExprFunc, FALSE), ExprFunc }

\* Meta.ordering of the model
MetaOrderings == { << >>, <<OrderName(<<"-", "foo">>), OrderName(<<"pk">>)>> }

OrderedQuery(order_by, meta_ordering, default_ordering, standard_ordering) ==
    [order_by |-> order_by, meta_ordering |-> meta_ordering,
     default_ordering |-> default_ordering, standard_ordering |-> standard_ordering]

OrderingInit ==
    /\ oquery \in { OrderedQuery(o, m, d, s) :
                      o \in SeqsUpTo(OrderEntries, MaxOrdering), m \in MetaOrderings,
                      d \in BOOLEAN, s \in BOOLEAN }
    /\ olast = [op |-> "init", exc |-> NoError, value |-> PyNone]

\* the query of a specification that orders nothing
OrderingIdle ==
    /\ oquery = OrderedQuery(<< >>, << >>, TRUE, TRUE)
    /\ olast = [op |-> "init", exc |-> NoError, value |-> PyNone]

\* compiler._get_ordering()
CallGetOrdering ==
    /\ olast.op = "init"
    /\ \E r \in {GetOrdering(oquery)} :
           olast' = [op |-> "_get_ordering", exc |-> r.exc, value |-> r.value]
    /\ UNCHANGED oquery

\* query.standard_ordering = not query.standard_ordering (QuerySet.reverse())
Reverse ==
    /\ olast.op = "_get_ordering"
    /\ oquery' = [oquery EXCEPT !.standard_ordering = ~@]
    /\ olast' = [op |-> "init", exc |-> NoError, value |-> PyNone]

OrderingNext ==
    \/ CallGetOrdering /\ UNCHANGED <<wvars, evars, now, ivars, cvars, fvars, lvars, mvars, gvars, kvars, svars, dvars>>
    \/ Reverse /\ UNCHANGED <<wvars, evars, now, ivars, cvars, fvars, lvars, mvars, gvars, kvars, svars, dvars>>


(***************************************************************************)
(* KeyTransform.preprocess_lhs and key_transform                           *)
(* (src/django_mongodb/fields/embedded_model.py)                           *)
(***************************************************************************)
\* EmbeddedModel.json_value of test_embedded_with_json_field
JsonValueField == LField("EmbeddedModel", "json_value", "JSONField", "")

\* model._meta fields by name, with the JSONField of the embedded model
KeyFieldsOf(model) ==
    IF model = "EmbeddedModel" THEN FieldsOf(model) @@ ("json_value" :> JsonValueField)
    ELSE FieldsOf(model)

\* a KeyTransform of a chain: its key_name and its ref_field
ChainKey(key_name, ref_field) == [key_name |-> key_name, ref_field |-> ref_field]

\* the characters of a key
Chars(key) ==
    CASE key = "0" -> <<"0">>
      [] key = "1" -> <<"1">>
      [] key = "10" -> <<"1", "0">>
      [] key = "001" -> <<"0", "0", "1">>
      [] key = "²" -> <<"²">>
      [] OTHER -> <<"f", "i", "e", "l", "d">>

\* the decimal digits, and a character of class Nd/No that is no decimal digit
DecimalDigits == <<"0", "1", "2", "3", "4", "5", "6", "7", "8", "9">>
OtherDigits == {"²"}

DigitValue(c) == (CHOOSE d \in 1..10 : DecimalDigits[d] = c) - 1

\* key.isdigit()
IsDigit(key) ==
    \A k \in 1..Len(Chars(key)) :
        \/ \E d \in 1..10 : DecimalDigits[d] = Chars(key)[k]
        \/ Chars(key)[k] \in OtherDigits

RECURSIVE IntOfChars(_, _, _)
\* int(key) of a key of digits read from the left; -1 for ValueError
IntOfChars(chars, k, n) ==
    IF k > Len(chars) THEN n
    ELSE IF chars[k] \in OtherDigits THEN -1
    ELSE IntOfChars(chars, k + 1, 10 * n + DigitValue(chars[k]))

RECURSIVE StrOfInt(_)
\* str(n) of n >= 0, as characters
StrOfInt(n) ==
    IF n < 10 THEN <<DecimalDigits[n + 1]>>
    ELSE Append(StrOfInt(n \div 10), DecimalDigits[(n % 10) + 1])

\* the expressions key_transform builds
MqlPath(names) == [op |-> "path", names |-> names]
MqlGetField(input, f) == [op |-> "$getField", input |-> input, field |-> f]
MqlIsArray(e) == [op |-> "$isArray", e |-> e]
MqlArrayElemAt(e, n) == [op |-> "$arrayElemAt", e |-> e, n |-> n]
MqlCond(if, then, else) == [op |-> "$cond", if |-> if, then |-> then, else |-> else]

KeyMql(value) == [exc |-> NoExc, value |-> value]
KeyRaised(exc) == [exc |-> exc, value |-> PyNone]

RECURSIVE PreprocessLoop(_, _, _, _)
\* the while loop of preprocess_lhs, from the last KeyTransform of the chain
\* back to the column
PreprocessLoop(chain, i, embedded_key_transforms, json_key_transforms) ==
    IF i = 0
    THEN [embedded_key_transforms |-> embedded_key_transforms,
          json_key_transforms |-> json_key_transforms]
    ELSE IF IsEmbeddedModelField(chain[i].ref_field)
    THEN PreprocessLoop(chain, i - 1, <<chain[i].key_name>> \o embedded_key_transforms,
                        json_key_transforms)
    ELSE PreprocessLoop(chain, i - 1, embedded_key_transforms,
                        <<chain[i].key_name>> \o json_key_transforms)

\* `embedded_key_transforms.append(json_key_transforms.pop(0))`; p is what the
\* loop did
PreprocessPopped(mql, p) ==
    IF p.json_key_transforms = << >>
    THEN [exc |-> "IndexError", mql |-> mql, key_transforms |-> p.embedded_key_transforms,
          json_key_transforms |-> << >>]
    ELSE [exc |-> NoExc, mql |-> mql,
          key_transforms |-> Append(p.embedded_key_transforms, Head(p.json_key_transforms)),
          json_key_transforms |-> Tail(p.json_key_transforms)]

\* KeyTransform.preprocess_lhs of the last transform of a chain over column
PreprocessLhs(column, chain) ==
    PreprocessPopped(column, PreprocessLoop(chain, Len(chain), << >>, << >>))

\* the body of the loop of key_transform
KeyStep(result, key) ==
    IF IsDigit(key)
    THEN IF IntOfChars(Chars(key), 1, 0) < 0 THEN KeyRaised("ValueError")
         ELSE IF StrOfInt(IntOfChars(Chars(key), 1, 0)) = Chars(key)
         THEN KeyMql(MqlCond(MqlIsArray(result),
                             MqlArrayElemAt(result, IntOfChars(Chars(key), 1, 0)),
                             MqlGetField(result, key)))
         ELSE KeyMql(MqlGetField(result, key))
    ELSE KeyMql(MqlGetField(result, key))

RECURSIVE KeyLoop(_, _, _)
\* `for key in json_key_transforms`
KeyLoop(r, keys, k) ==
    IF r.exc # NoExc \/ k > Len(keys) THEN r
    ELSE KeyLoop(KeyStep(r.value, keys[k]), keys, k + 1)

\* key_transform after preprocess_lhs; p is what preprocess_lhs did
KeyTransformed(p) ==
    IF p.exc # NoExc THEN KeyRaised(p.exc)
    ELSE KeyLoop(KeyMql(MqlPath(<<p.mql>> \o p.key_transforms)), p.json_key_transforms, 1)

\* key_transform(self, compiler, connection)
KeyTransformFn(column, chain) == KeyTransformed(PreprocessLhs(column, chain))

NoChain == [ok |-> FALSE, keys |-> << >>]
Chain(keys) == [ok |-> TRUE, keys |-> keys]

RECURSIVE ChainFrom(_, _, _, _)
\* the chain of KeyTransforms that get_transform builds for the names after
\* the column: a key of an embedded model names one of its fields, a key
\* after a JSONField is a key of that field; NoChain when a name is refused
ChainFrom(ref_field, names, i, keys) ==
    IF i > Len(names) THEN Chain(keys)
    ELSE IF IsEmbeddedModelField(ref_field)
    THEN IF names[i] \in DOMAIN KeyFieldsOf(ref_field.embedded_model)
         THEN ChainFrom(KeyFieldsOf(ref_field.embedded_model)[names[i]], names, i + 1,
                        Append(keys, ChainKey(names[i],
                                              KeyFieldsOf(ref_field.embedded_model)[names[i]])))
         ELSE NoChain
    ELSE IF ref_field.type = "JSONField"
    THEN ChainFrom(ref_field, names, i + 1, Append(keys, ChainKey(names[i], ref_field)))
    ELSE NoChain

\* the chain of a lookup path of a model, NoChain when the path is refused or
\* is no chain of key transforms on an EmbeddedModelField
ChainOfPath(model, path) ==
    IF Len(path) < 2 THEN NoChain
    ELSE IF path[1] \notin DOMAIN KeyFieldsOf(model) THEN NoChain
    ELSE IF ~IsEmbeddedModelField(KeyFieldsOf(model)[path[1]]) THEN NoChain
    ELSE ChainFrom(KeyFieldsOf(model)[path[1]], Tail(path), 1, << >>)

\* the names of the lookup paths
KeyNames ==
    {"author", "address", "city", "name", "simple", "someint", "json_value", "field2",
     "0", "1", "10", "001", "²"}

RECURSIVE PathsOfLen(_, _)
\* the lookup paths of n names that get_transform accepts, each the
\* extension of an accepted path by one more name
PathsOfLen(model, n) ==
    IF n = 1 THEN { <<name>> : name \in { f \in DOMAIN KeyFieldsOf(model) :
                                             IsEmbeddedModelField(KeyFieldsOf(model)[f]) } }
    ELSE { Append(p, name) : p \in PathsOfLen(model, n - 1), name \in KeyNames }
            \cap { p \in Seq(KeyNames) : Len(p) = n /\ ChainOfPath(model, p).ok }

\* the lookup paths that give a chain of key transforms
KeyPaths(model) ==
    UNION { PathsOfLen(model, n) : n \in 2..(MaxKeys + 1) }

KeysInit ==
    /\ lroot \in RootModels
    /\ lpath \in KeyPaths(lroot)
    /\ lqs = NoQuerySet
    /\ lqueries = 0
    /\ llast = [op |-> "init", exc |-> NoExc, value |-> PyNone]

\* the lhs of the lookup is compiled: KeyTransform.as_mql
KeyAsMql ==
    /\ llast.op = "init"
    /\ \E r \in {KeyTransformFn(lpath[1], ChainOfPath(lroot, lpath).keys)} :
           llast' = [op |-> "as_mql", exc |-> r.exc, value |-> r.value]
    /\ UNCHANGED <<lroot, lpath, lqs, lqueries>>

\* one more key is appended to a path that ends in a JSONField
KeyAppend ==
    /\ llast.op = "as_mql"
    /\ Len(lpath) <= MaxKeys
    /\ \E name \in KeyNames :
           /\ ChainOfPath(lroot, Append(lpath, name)).ok
           /\ lpath' = Append(lpath, name)
    /\ llast' = [op |-> "init", exc |-> NoExc, value |-> PyNone]
    /\ UNCHANGED <<lroot, lqs, lqueries>>

KeysNext ==
    \/ KeyAsMql /\ UNCHANGED <<wvars, evars, now, ivars, cvars, fvars, mvars, gvars, kvars, svars, ovars, dvars>>
    \/ KeyAppend /\ UNCHANGED <<wvars, evars, now, ivars, cvars, fvars, mvars, gvars, kvars, svars, ovars, dvars>>


(***************************************************************************)
(* The widgets of the formset fields: MultipleEmbeddedModelWidget          *)
(* (src/django_mongodb_backend/forms/fields/multiple_embedded_model.py,    *)
(*  src/django_mongodb_backend/forms/fields/embedded_model_array.py)       *)
(***************************************************************************)
\* the characters of a key of the submitted data or of a field name
Letters(s) ==
    CASE s = "title" ->
            <<"t", "i", "t", "l", "e">>
      [] s = "reviewer" ->
            <<"r", "e", "v", "i", "e", "w", "e", "r">>
      [] s = "review" ->
            <<"r", "e", "v", "i", "e", "w">>
      [] s = "reviews" ->
            <<"r", "e", "v", "i", "e", "w", "s">>
      [] s = "review-0-title" ->
            <<"r", "e", "v", "i", "e", "w", "-", "0", "-", "t", "i", "t", "l", "e">>
      [] s = "review-TOTAL_FORMS" ->
            <<"r", "e", "v", "i", "e", "w", "-", "T", "O", "T", "A", "L", "_", "F", "O", "R", "M", "S">>
      [] s = "reviews-0-title" ->
            <<"r", "e", "v", "i", "e", "w", "s", "-", "0", "-", "t", "i", "t", "l", "e">>
      [] s = "reviews-TOTAL_FORMS" ->
            <<"r", "e", "v", "i", "e", "w", "s", "-", "T", "O", "T", "A", "L", "_", "F", "O", "R", "M", "S">>

\* the two modules that define a MultipleEmbeddedModelWidget
WidgetModules == {"multiple_embedded_model", "embedded_model_array"}

\* key.startswith(name) in multiple_embedded_model.py,
\* key.startswith(f"{name}-") in embedded_model_array.py
WidgetPrefix(widget, name) ==
    IF widget = "multiple_embedded_model" THEN Letters(name)
    ELSE Letters(name) \o <<"-">>

\* {key: data[key] for key in data if key.startswith(...)}
ValueFromDatadict(widget, datadict, files, name) ==
    [key \in {k \in DOMAIN datadict : StartsWith(Letters(k), WidgetPrefix(widget, name))} |->
        datadict[key]]

\* forms.Widget.value_omitted_from_data
WidgetValueOmittedFromData(datadict, files, name) == name \notin DOMAIN datadict

\* any(key.startswith(name) for key in data) in multiple_embedded_model.py;
\* the widget of embedded_model_array.py inherits the method of forms.Widget
ValueOmittedFromData(widget, datadict, files, name) ==
    IF widget = "multiple_embedded_model"
    THEN \E key \in DOMAIN datadict : StartsWith(Letters(key), Letters(name))
    ELSE WidgetValueOmittedFromData(datadict, files, name)

\* the names of the fields of the form
FormFieldNames == {"title", "review", "reviews"}

\* the keys a submission can hold
DataKeys ==
    {"title", "reviewer", "review-0-title", "review-TOTAL_FORMS", "reviews-0-title",
     "reviews-TOTAL_FORMS"}

\* the values submitted
DataValues == {"Great!", "1"}

\* the submissions: a value for some of the keys
Submissions == UNION { [keys -> DataValues] : keys \in SUBSET DataKeys }

NoFiles == PyNone

WidgetInit ==
    /\ dwidget \in WidgetModules
    /\ ddata \in Submissions
    /\ dname \in FormFieldNames
    /\ dlast = [op |-> "init", value |-> PyNone]

\* the widget of a specification that reads no submission
WidgetIdle ==
    /\ dwidget = "embedded_model_array"
    /\ ddata = << >>
    /\ dname = "reviews"
    /\ dlast = [op |-> "init", value |-> PyNone]

\* widget.value_from_datadict(data, files, name)
CallValueFromDatadict ==
    /\ dlast.op # "value_from_datadict"
    /\ dlast' = [op |-> "value_from_datadict",
                 value |-> ValueFromDatadict(dwidget, ddata, NoFiles, dname)]
    /\ UNCHANGED <<dwidget, ddata, dname>>

\* widget.value_omitted_from_data(data, files, name)
CallValueOmittedFromData ==
    /\ dlast.op # "value_omitted_from_data"
    /\ dlast' = [op |-> "value_omitted_from_data",
                 value |-> ValueOmittedFromData(dwidget, ddata, NoFiles, dname)]
    /\ UNCHANGED <<dwidget, ddata, dname>>

WidgetNext ==
    \/ CallValueFromDatadict /\ UNCHANGED <<wvars, evars, now, ivars, cvars, fvars, lvars, mvars, gvars, kvars, svars, ovars>>
    \/ CallValueOmittedFromData /\ UNCHANGED <<wvars, evars, now, ivars, cvars, fvars, lvars, mvars, gvars, kvars, svars, ovars>>


(***************************************************************************)
(* Properties of the DatabaseWrapper                                       *)
(***************************************************************************)
LastRead(attrs) == last.op = "read" /\ last.attr \in attrs

\* the wrapper's attributes without the receiver's data
Wrapper(s) == <<s.connected, s.connection, s.database, s.clients, s.sent>>

\* the exceptions of a refused or failed authentication
AuthFailures == {ImproperlyConfiguredAuth, "OperationFailure"}

\* C1: on a wrapper that is not connected, a read of `connection` or
\* `database` runs _connect(), returns the attribute _connect() has just set
\* and leaves connected True; a read of any other missing attribute raises
\* AttributeError and does not connect. (A read in which authentication
\* fails, of which the claim does not speak, is left out.)
C1_ReadConnects ==
    (last.op = "read" /\ ~last.pre.connected /\ last.exc \notin AuthFailures) =>
        IF last.attr \in {"connection", "database"}
        THEN /\ clients = last.pre.clients + 1
             /\ last.exc = NoExc
             /\ last.value = clients
             /\ last.value = AttrValue(WState, last.attr)
             /\ connected
        ELSE /\ last.exc = "AttributeError"
             /\ WState = last.pre

\* C2: connection_created is sent only once `connection` and `database` are
\* set and connected is True; a registered receiver that reads
\* connection.database in the signal records the database that the wrapper
\* holds afterwards, and only one _connect() has run.
C2_DatabaseInSignal ==
    (last.op = "read" /\ last.atSend.sent) =>
        /\ last.atSend.connected
        /\ last.atSend.connection # Absent
        /\ last.atSend.database # Absent
        /\ last.receiver =>
              /\ last.exc = NoExc
              /\ data = database
              /\ clients = last.pre.clients + 1

\* C3: close() on a connected wrapper deletes `connection` and `database` and
\* sets connected False; close() on a wrapper that is not connected changes
\* nothing; the next read of `connection` or `database` after close()
\* reconnects (unless authentication fails); every operation sends
\* connection_created exactly once if it takes the wrapper from not connected
\* to connected, and not otherwise.
C3_CloseAndReconnect ==
    /\ (last.op = "close" /\ last.pre.connected) =>
          /\ last.exc = NoExc
          /\ connection = Absent /\ database = Absent /\ ~connected
    /\ (last.op = "close" /\ ~last.pre.connected) =>
          /\ last.exc = NoExc
          /\ WState = last.pre
    /\ (LastRead({"connection", "database"}) /\ last.prev = "close"
            /\ last.exc \notin AuthFailures) =>
          /\ clients = last.pre.clients + 1
          /\ connected
    /\ (last.op # "init") =>
          sent - last.pre.sent = IF ~last.pre.connected /\ connected THEN 1 ELSE 0

C21_ConnectedIffBothSet ==
    /\ connected <=> (connection # Absent /\ database # Absent)
    /\ last.exc \notin {"AssertionError", "RecursionError"}
    /\ last.op = "close" => last.exc # "AttributeError"


(***************************************************************************)
(* Properties of the compilers                                             *)
(***************************************************************************)
\* the embedded instances of the i-th object of the insert that
\* get_db_prep_save has left with _state.adding False
PreparedEmbedded(i) ==
    { n \in FieldNames(ifields) :
        /\ iobjs[i].attrs[n].t = "inst"
        /\ ~iobjs[i].attrs[n].adding }

\* C22: an embedded instance has _state.adding set to False by
\* get_db_prep_save only if the enclosing document is then written: after an
\* insert that failed (IntegrityError on a later field, a driver error) the
\* embedded instances of the objects whose documents the collection did not
\* receive are still adding.
C22_AddingUntilWritten ==
    ilast.op = "insert" =>
        \A i \in 1..Len(iobjs) : PreparedEmbedded(i) # {} => Len(icoll) >= i

\* the positions of the prepared values that are None for a field that is
\* neither nullable nor the primary key
NoneForRequired(prepared) ==
    { k \in 1..Len(prepared) :
        /\ prepared[k].value = PyNone
        /\ ~prepared[k].field.null
        /\ ~prepared[k].field.primary_key }

\* C5: SQLInsertCompiler.execute_sql raises IntegrityError("You can't set
\* <name> (a non-nullable field) to None.") exactly when the value it has
\* prepared for a field that is neither nullable nor the primary key is None,
\* for any object of the batch, and <name> is that field; then insert_many is
\* not called and the collection is as it was. insert() is only called after
\* every field of every object of the batch has been prepared.
C5_NoneRejectedBeforeInsert ==
    ilast.op = "insert" =>
        /\ (NoneForRequired(ilast.prepared) # {}) = (ilast.exc.type = "IntegrityError")
        /\ \A k \in NoneForRequired(ilast.prepared) :
              /\ k = Len(ilast.prepared)
              /\ ilast.exc = IntegrityErrorNull(ilast.prepared[k].field.name)
              /\ ~ilast.called
              /\ icoll = ilast.before
        /\ ilast.called =>
              /\ Len(ilast.prepared) = Len(iobjs) * Len(ifields)
              /\ Len(ilast.docs) = Len(iobjs)

\* C5 witness: in a batch of two objects the first is prepared whole and a
\* required field of the second is None: IntegrityError, nothing stored
C5_Witness ==
    /\ ilast.op = "insert"
    /\ Len(iobjs) = 2
    /\ Len(ilast.prepared) > Len(ifields)
    /\ NoneForRequired(ilast.prepared) # {}
    /\ ilast.exc.type = "IntegrityError"
    /\ ~ilast.called
    /\ icoll = << >>

\* the positions of the values that update() refuses: the field is the
\* primary key, or the value is an Expression
Offending(values) ==
    { k \in 1..Len(values) :
        values[k].field.primary_key \/ values[k].value.t = "Expression" }

FirstOffending(values) ==
    CHOOSE k \in Offending(values) : \A j \in Offending(values) : k <= j

\* the calls of update() that the last execute_sql made: positions in its log
UpdateCalls == { i \in 1..Len(clast.log) : clast.log[i].ev = "update" }

\* the call at position i of the log raised: nothing was called after it, and
\* the collection of its query is as it was before execute_sql
RaisedAt(i) ==
    /\ i = Len(clast.log)
    /\ colls[clast.log[i].collection] = clast.before[clast.log[i].collection]

\* C6 (as the claim states it): SQLUpdateCompiler.update raises
\* DatabaseError('Cannot modify _id.') if any updated field is the primary
\* key, and NotSupportedError('QuerySet.update() with expression not
\* supported.') if any prepared value is an Expression, whatever the position
\* of the offending field; update_many is not called and the collection is
\* unchanged.
C6_AnyOffendingValueRejected ==
    clast.op = "update" =>
        \A i \in UpdateCalls :
            /\ (\E k \in 1..Len(clast.log[i].values) :
                    clast.log[i].values[k].field.primary_key)
                  => (clast.exc = DatabaseErrorId /\ RaisedAt(i))
            /\ (\E k \in 1..Len(clast.log[i].values) :
                    clast.log[i].values[k].value.t = "Expression")
                  => (clast.exc = ExpressionNotSupported /\ RaisedAt(i))

\* C6 (amended): when some value of update() is for the primary key or is an
\* Expression, update raises for the first such value in the order of the
\* values: DatabaseError('Cannot modify _id.') if its field is the primary
\* key, and otherwise NotSupportedError('QuerySet.update() with expression
\* not supported.'); update_many is not called and the collection is
\* unchanged.
C6_FirstOffendingValueRejected ==
    clast.op = "update" =>
        \A i \in UpdateCalls :
            Offending(clast.log[i].values) # {} =>
                /\ clast.exc =
                      IF clast.log[i].values[FirstOffending(clast.log[i].values)].field.primary_key
                      THEN DatabaseErrorId
                      ELSE ExpressionNotSupported
                /\ RaisedAt(i)

\* C6 witness: update() of <<(foo, Expression), (id, 5)>> on the main
\* collection raised the NotSupportedError of the first value
C6_Witness ==
    /\ clast.op = "update"
    /\ Len(clast.log) = 1
    /\ clast.log[1].ev = "update"
    /\ Len(clast.log[1].values) = 2
    /\ clast.log[1].values[1].value.t = "Expression"
    /\ ~clast.log[1].values[1].field.primary_key
    /\ clast.log[1].values[2].field.primary_key
    /\ clast.exc = ExpressionNotSupported
    /\ colls = clast.before

\* what the claim of check_query says of a query: does it have an unsupported
\* feature, and the message of the first that matches
Unsupported(q) ==
    \/ q.distinct
    \/ (q.inner_query # NoInner /\ q.inner_query.distinct)
    \/ q.extra # {}
    \/ \E k \in DOMAIN q.annotations : q.annotations[k] \notin {"Count", "F"}

FirstMatch(q) ==
    CASE (q.distinct \/ (q.inner_query # NoInner /\ q.inner_query.distinct))
            /\ "datetimefield" \in DOMAIN q.annotations -> DatetimesNotSupported
      [] (q.distinct \/ (q.inner_query # NoInner /\ q.inner_query.distinct))
            /\ "datetimefield" \notin DOMAIN q.annotations
            /\ "datefield" \in DOMAIN q.annotations -> DatesNotSupported
      [] (q.distinct \/ (q.inner_query # NoInner /\ q.inner_query.distinct))
            /\ "datetimefield" \notin DOMAIN q.annotations
            /\ "datefield" \notin DOMAIN q.annotations -> DistinctNotSupported
      [] ~(q.distinct \/ (q.inner_query # NoInner /\ q.inner_query.distinct))
            /\ (\E key \in q.extra : key[1] = "_prefetch_related_") -> PrefetchRelatedNotSupported
      [] ~(q.distinct \/ (q.inner_query # NoInner /\ q.inner_query.distinct))
            /\ q.extra # {}
            /\ ~(\E key \in q.extra : key[1] = "_prefetch_related_") -> ExtraNotSupported
      [] OTHER -> AggregateNotSupported

\* C7: build_query calls check_query before it builds anything, and
\* check_query raises NotSupportedError exactly when the query (or its
\* inner_query) is distinct, or the query has extra entries, or has an
\* annotation that is an Aggregate other than Count, with the message of the
\* first match in the order datetimes(), dates(), distinct(),
\* prefetch_related(), extra(), aggregate(); a query with none of these
\* passes the check, and build_query then builds the query (or raises the
\* EmptyResultSet of its filter).
C7_CheckQueryFirstMatch ==
    clast.op = "build_query" =>
        /\ clast.steps[1] = "check_query"
        /\ (clast.exc.type = "NotSupportedError") = Unsupported(cquery)
        /\ Unsupported(cquery) =>
              /\ clast.exc = FirstMatch(cquery)
              /\ clast.steps = <<"check_query">>
              /\ clast.value.mongo_query = PyNone
        /\ ~Unsupported(cquery) =>
              /\ Len(clast.steps) > 1
              /\ clast.exc \in {NoError, EmptyResultSet}
              /\ (clast.exc = EmptyResultSet) = (cquery.where = "EmptyResultSet")

\* C7 witness: a count over a distinct inner query, annotated 'datefield',
\* with extra entries and a filter that matches nothing: the check raised
\* the dates() message and nothing was built
C7_Witness ==
    /\ clast.op = "build_query"
    /\ ~cquery.distinct
    /\ cquery.inner_query # NoInner
    /\ cquery.inner_query.distinct
    /\ "datefield" \in DOMAIN cquery.annotations
    /\ cquery.extra # {}
    /\ cquery.where = "EmptyResultSet"
    /\ clast.exc = DatesNotSupported
    /\ clast.steps = <<"check_query">>

\* the aliases of the compiler's query with a non-zero refcount
ActiveAliases == { a \in DOMAIN cquery.alias_refcount : cquery.alias_refcount[a] # 0 }

\* the messages of the base check_query
BaseMessages ==
    { DatetimesNotSupported, DatesNotSupported, DistinctNotSupported,
      PrefetchRelatedNotSupported, ExtraNotSupported, AggregateNotSupported }

\* the calls of execute_update for the compiler's own query in the last
\* execute_sql: positions in its log
ExecuteUpdateCalls ==
    { i \in 1..Len(clast.log) :
        clast.log[i].ev = "execute_update" /\ clast.log[i].collection = cquery.collection }

\* the calls of the driver on the collection of the compiler's own query
DriverCalls ==
    { i \in 1..Len(clast.log) :
        /\ clast.log[i].ev \in {"update_many", "delete_many"}
        /\ clast.log[i].collection = cquery.collection }

\* C24: an update or delete compiler whose filter can match nothing
\* (EmptyResultSet raised while building the query) never lets the exception
\* escape and never calls the driver: execute_update returns 0 without
\* update_many and SQLDeleteCompiler.execute_sql returns a cursor with
\* rowcount 0 without delete. (Select and get_count are C20's.)
C24_EmptyResultSetIsEmpty ==
    (clast.op \in {"update", "delete"} /\ cquery.where = "EmptyResultSet") =>
        /\ clast.exc # EmptyResultSet
        /\ DriverCalls = {}
        /\ (clast.op = "delete" /\ DeleteCheckQuery(cquery) = NoError) =>
              clast.exc = NoError /\ clast.rows = 0

MainMatched ==
    IF cquery.where = "EmptyResultSet" THEN {}
    ELSE { d \in clast.before[cquery.collection] :
             cquery.where = "FullResultSet" \/ d["foo"] = PyInt(1) }

\* the row counts of the related updates that the last execute_sql executed
RelatedRows == SelectSeq(clast.log, LAMBDA e : e.ev = "related")

\* C9: when SQLUpdateCompiler.execute_sql returns, with a non-empty value
\* list it returns the matched count of the main update, whatever the related
\* updates report; with an empty value list it returns the row count of the
\* first related update that reports a non-zero count, or 0 if none does;
\* every related update has been executed, in order.
C9_RowsOfPrimaryUpdate ==
    (clast.op = "update" /\ clast.exc = NoError) =>
        /\ Len(RelatedRows) = Len(cquery.related_updates)
        /\ \A k \in 1..Len(RelatedRows) : RelatedRows[k].k = k
        /\ cquery.values # << >> => clast.rows = Cardinality(MainMatched)
        /\ cquery.values = << >> =>
              IF \E k \in 1..Len(RelatedRows) : RelatedRows[k].rows # 0
              THEN \E k \in 1..Len(RelatedRows) :
                      /\ RelatedRows[k].rows # 0
                      /\ \A j \in 1..(k - 1) : RelatedRows[j].rows = 0
                      /\ clast.rows = RelatedRows[k].rows
              ELSE clast.rows = 0

\* C9 witness: the main update matched one document while both related
\* updates reported other non-zero counts, and execute_sql returned 1
C9_Witness ==
    /\ clast.op = "update" /\ clast.exc = NoError
    /\ cquery.values # << >>
    /\ Cardinality(MainMatched) = 1
    /\ Len(RelatedRows) = 2
    /\ RelatedRows[1].rows = 2
    /\ RelatedRows[2].rows = 1
    /\ clast.rows = 1


(***************************************************************************)
(* Properties of EmbeddedModelField                                        *)
(***************************************************************************)
\* C10: after get_db_prep_save(x) of an instance x of the embedded model,
\* to_python of the stored dict is an instance of the embedded model whose
\* every stored field has x's prepared value; a primary key that is None is
\* not in the dict and loads back as None, one that was set is stored and
\* loads back; None is saved as None and loads as None; to_python returns a
\* value that is not a dict unchanged.
C10_SaveLoadRoundTrip ==
    /\ (elast.op = "save" /\ elast.exc = NoExc) =>
          LET d == elast.value
              y == EmbToPython(SimpleField, d)
          IN  IF elast.arg = PyNone
              THEN d = PyNone /\ y = PyNone
              ELSE /\ d.t = "dict"
                   /\ IsInstance(y, SimpleField.embedded_model)
                   /\ \A i \in 1..Len(EmbeddedModelFields) :
                         LET f == EmbeddedModelFields[i]
                             prepared == FieldGetDbPrepSave(f, obj.attrs[f.attname])
                         IN  IF f.primary_key /\ prepared = PyNone
                             THEN /\ f.attname \notin DOMAIN d.items
                                  /\ y.attrs[f.attname] = PyNone
                             ELSE /\ f.attname \in DOMAIN d.items
                                  /\ d.items[f.attname] = prepared
                                  /\ y.attrs[f.attname] = prepared
    /\ (elast.op = "load" /\ elast.arg = PyNone) => obj = PyNone
    /\ (elast.op = "to_python" /\ elast.arg.t # "dict") => elast.value = elast.arg

\* C10 witness: an instance with someint="5" and no primary key was saved, and
\* the stored dict holds the prepared someint (5) and no id
C10_Witness ==
    /\ elast.op = "save" /\ elast.exc = NoExc
    /\ elast.arg.t = "inst"
    /\ elast.arg.attrs["someint"] = PyStr("5")
    /\ elast.arg.attrs["id"] = PyNone
    /\ elast.value.items["someint"] = PyInt(5)
    /\ "id" \notin DOMAIN elast.value.items

\* C11: Field.pre_save() is called on the fields of the embedded instance with
\* the instance's own adding flag: every save of the parent assigns auto_now;
\* auto_now_add is assigned by the save made while the instance is adding and
\* is kept by every later save and reload; get_db_prep_save and to_python
\* leave _state.adding False.
C11_AutoNowAddOnlyOnce ==
    /\ (elast.op = "parent.save" /\ elast.arg.t = "inst") =>
          /\ obj.attrs["auto_now"] = PyDateTime(now)
          /\ obj.attrs["auto_now_add"] =
                IF elast.arg.adding THEN PyDateTime(now)
                ELSE elast.arg.attrs["auto_now_add"]
          /\ ~obj.adding
    /\ (elast.op = "load" /\ obj.t = "inst") =>
          /\ ~obj.adding
          /\ "auto_now_add" \in DOMAIN stored.items =>
                obj.attrs["auto_now_add"] = stored.items["auto_now_add"]

\* the second save of test_pre_save: the parent is in the database, its
\* embedded instance was saved with it, and save() raised TypeError without
\* assigning auto_now
C11_SecondSaveRaises ==
    /\ elast.op = "parent.save" /\ ~elast.adding
    /\ elast.arg.t = "inst" /\ ~elast.arg.adding
    /\ elast.exc = "TypeError"
    /\ obj.attrs["auto_now"] # PyDateTime(now)



(***************************************************************************)
(* Properties of the fields' deconstruct()                                 *)
(***************************************************************************)
\* the path of the class directly under the `fields` module of its package
ShortPath(cls) ==
    <<IF cls = "EmbeddedModelField" THEN "django_mongodb" ELSE "django_mongodb_backend",
      ".", "fields", ".", cls>>

\* the options of the mfield that differ from their defaults
NonDefaultOptions(f) ==
    {k \in {"null"} : f.null # PyBool(FALSE)}
    \cup {k \in {"max_size"} : f.max_size # PyNone}
    \cup {k \in {"size"} : f.size # PyNone}

\* the embedded model the mfield holds now: its own attribute, and for
\* MultipleEmbeddedModelField that of its base mfield
CurrentModel(f) ==
    IF f.cls = "MultipleEmbeddedModelField" THEN f.base_embedded_model ELSE f.embedded_model

\* C12 (as the claim states it): deconstruct() returns the short path, empty
\* args, and kwargs that hold the embedded model as given plus the
\* non-default options and never base_field; constructing the class again
\* from the kwargs gives a mfield with the same deconstruct().
C12_DeconstructAsGiven ==
    /\ flast.op = "deconstruct" =>
          /\ flast.value.path = ShortPath(mfield.cls)
          /\ flast.value.args = << >>
          /\ DOMAIN flast.value.kwargs = {ModelKeyword(mfield.cls)} \cup NonDefaultOptions(mfield)
          /\ flast.value.kwargs[ModelKeyword(mfield.cls)] = mfield.given
    /\ flast.op = "reconstruct" =>
          /\ flast.exc = NoExc
          /\ flast.value = flast.arg

\* C12 (amended): deconstruct() returns the short path, empty args, and kwargs
\* without base_field that hold the embedded model the mfield holds now (the
\* class, once a model given by name has been resolved; as given for
\* EmbeddedModelArrayField) under embedded_model (under model for
\* MultipleEmbeddedModelField), the non-default options, and for
\* MultipleEmbeddedModelField always size; constructing the class again from
\* the kwargs gives a mfield with the same deconstruct().
C12_DeconstructRoundTrip ==
    /\ flast.op = "deconstruct" =>
          /\ flast.value.path = ShortPath(mfield.cls)
          /\ flast.value.args = << >>
          /\ DOMAIN flast.value.kwargs =
                {ModelKeyword(mfield.cls)} \cup NonDefaultOptions(mfield)
                \cup (IF mfield.cls = "MultipleEmbeddedModelField" THEN {"size"} ELSE {})
          /\ flast.value.kwargs[ModelKeyword(mfield.cls)] = CurrentModel(mfield)
          /\ mfield.cls = "EmbeddedModelArrayField" =>
                flast.value.kwargs["embedded_model"] = mfield.given
          /\ "null" \in DOMAIN flast.value.kwargs => flast.value.kwargs["null"] = mfield.null
          /\ "max_size" \in DOMAIN flast.value.kwargs =>
                flast.value.kwargs["max_size"] = mfield.max_size
          /\ "size" \in DOMAIN flast.value.kwargs => flast.value.kwargs["size"] = mfield.size
    /\ flast.op = "reconstruct" =>
          /\ flast.exc = NoExc
          /\ flast.value = flast.arg

\* C12 witness: a MultipleEmbeddedModelField given "Data" and null=True, whose
\* base mfield resolved the name, was constructed again from its kwargs
\* (model=<class Data>, null=True, size=None) and deconstructs to the same
C12_Witness ==
    /\ flast.op = "reconstruct" /\ flast.exc = NoExc
    /\ mfield.cls = "MultipleEmbeddedModelField"
    /\ flast.arg.kwargs = ("model" :> PyClass("Data")) @@ ("null" :> PyBool(TRUE))
                          @@ ("size" :> PyNone)
    /\ flast.value = flast.arg



(***************************************************************************)
(* Properties of EmbeddedModelArrayField.get_db_prep_value                 *)
(***************************************************************************)
IsSeq(value) == value.t \in {"list", "tuple"}

\* the list is the elements of the value, each converted by the base field's
\* get_db_prep_save, in order
ConvertedInOrder(value, result, t) ==
    /\ result.t = "list"
    /\ Len(result.items) = Len(value.items)
    /\ \A i \in 1..Len(value.items) :
          result.items[i] = EmbGetDbPrepSave(SimpleField, value.items[i], t).value

\* what save() does with a value that is not a list of instances only
ArrayOtherValues(call) ==
    /\ call.arg = PyNone => call.exc = NoExc /\ call.value = PyNone /\ stored = PyNone
    /\ (~IsSeq(call.arg) /\ call.arg # PyNone) =>
          /\ call.exc = "TypeError" /\ call.msg = ExpectedList
          /\ stored = call.before

\* C13 (as the claim states it): TypeError 'Expected instance of type ...'
\* when any element of the list is not an instance of the embedded model.
C13_AnyNonInstanceRejected ==
    elast.op = "array.save" =>
        /\ ArrayOtherValues(elast)
        /\ IsSeq(elast.arg) =>
              IF \E i \in 1..Len(elast.arg.items) : ~IsInstance(elast.arg.items[i], "EmbeddedModel")
              THEN elast.exc = "TypeError" /\ elast.msg = ExpectedInstance
                   /\ stored = elast.before
              ELSE elast.exc = NoExc /\ ConvertedInOrder(elast.arg, elast.value, elast.at)
                   /\ stored = elast.value

\* C13 (amended): get_db_prep_value maps a list or tuple to a list of the same
\* length and order, each element converted by the base field's
\* get_db_prep_save (None stays None); it returns None for None, raises
\* TypeError 'Expected list of ...' for any other value that is not a list or
\* tuple, and TypeError 'Expected instance of type ...' when an element is
\* neither None nor an instance of the embedded model; when it raises,
\* nothing is saved.
C13_ArrayPrepValue ==
    elast.op = "array.save" =>
        /\ ArrayOtherValues(elast)
        /\ IsSeq(elast.arg) =>
              IF \E i \in 1..Len(elast.arg.items) :
                    /\ elast.arg.items[i] # PyNone
                    /\ ~IsInstance(elast.arg.items[i], "EmbeddedModel")
              THEN elast.exc = "TypeError" /\ elast.msg = ExpectedInstance
                   /\ stored = elast.before
              ELSE elast.exc = NoExc /\ ConvertedInOrder(elast.arg, elast.value, elast.at)
                   /\ stored = elast.value

\* C13 witness: a list was saved, and then a save of [instance, 42] raised
\* 'Expected instance of type ...' and left the saved list as it was
C13_Witness ==
    /\ elast.op = "array.save" /\ elast.exc = "TypeError" /\ elast.msg = ExpectedInstance
    /\ Len(elast.arg.items) = 2
    /\ IsInstance(elast.arg.items[1], "EmbeddedModel")
    /\ elast.arg.items[2] = PyInt(42)
    /\ stored = elast.before /\ stored.t = "list" /\ Len(stored.items) = 2



(***************************************************************************)
(* Properties of lookups through EmbeddedModelFields                       *)
(***************************************************************************)
RECURSIVE Reached(_, _, _)
\* the field reached by the first k names of the path: a name that is a
\* field of the embedded model reached so far goes one level down
Reached(model, path, k) ==
    IF k = 1 THEN FieldsOf(model)[path[1]]
    ELSE IF /\ IsEmbeddedModelField(Reached(model, path, k - 1))
            /\ path[k] \in DOMAIN FieldsOf(Reached(model, path, k - 1).embedded_model)
    THEN FieldsOf(Reached(model, path, k - 1).embedded_model)[path[k]]
    ELSE Reached(model, path, k - 1)

\* the model whose fields are looked at after the first k names
ModelAt(model, path, k) ==
    IF IsEmbeddedModelField(Reached(model, path, k))
    THEN Reached(model, path, k).embedded_model
    ELSE Reached(model, path, k).model

\* name k of the path is neither a registered transform of the field reached
\* so far nor a field of the embedded model at that depth (a last name that
\* is a registered lookup is the lookup, not a segment of the path)
Missing(model, path, k) ==
    /\ path[k] \notin RegisteredTransforms(Reached(model, path, k - 1).type)
    /\ IsEmbeddedModelField(Reached(model, path, k - 1)) =>
          path[k] \notin DOMAIN FieldsOf(Reached(model, path, k - 1).embedded_model)
    /\ ~(k = Len(path) /\ path[k] \in RegisteredLookups)

ThroughEmbedded(model, path) ==
    /\ path[1] \in DOMAIN FieldsOf(model)
    /\ IsEmbeddedModelField(FieldsOf(model)[path[1]])

FirstMissing(model, path) ==
    CHOOSE k \in 2..Len(path) :
        /\ Missing(model, path, k)
        /\ \A j \in 2..(k - 1) : ~Missing(model, path, j)

\* C14: a filter whose path goes through an EmbeddedModelField and has a
\* name that is neither a registered transform of the field reached so far
\* nor a field of the embedded model at that depth raises FieldDoesNotExist
\* "<model> has no field named '<name>'", at any depth, when the filter is
\* built: no queryset is made and no query has run.
C14_MissingFieldRaises ==
    (/\ llast.op = "filter"
     /\ ThroughEmbedded(lroot, lpath)
     /\ \E k \in 2..Len(lpath) : Missing(lroot, lpath, k)) =>
        /\ llast.exc = "FieldDoesNotExist"
        /\ llast.name = lpath[FirstMissing(lroot, lpath)]
        /\ llast.model = ModelAt(lroot, lpath, FirstMissing(lroot, lpath) - 1)
        /\ lqs = NoQuerySet
        /\ lqueries = 0

\* C14 witness: filter(author__address__city__president=...) raised
\* "Address has no field named 'president'"
C14_Witness ==
    /\ llast.op = "filter" /\ lroot = "Book"
    /\ lpath = <<"author", "address", "city", "president">>
    /\ llast.exc = "FieldDoesNotExist" /\ llast.model = "Address"
    /\ llast.name = "president"
    /\ lqs = NoQuerySet /\ lqueries = 0



(***************************************************************************)
(* Properties of the lookups on the elements of an array                   *)
(***************************************************************************)
\* the elements of the array of the document; none when it is null or missing
ElementsOf(doc, column) ==
    IF column \in DOMAIN doc.items /\ doc.items[column].t = "list"
    THEN doc.items[column].items
    ELSE << >>

\* the value satisfies the lookup
Satisfies(lookup_name, value, rhs) ==
    IF lookup_name = "exact" THEN value = rhs
    ELSE \E j \in 1..Len(rhs.items) : rhs.items[j] = value

KeptForms(forms) == SelectSeq(forms, LAMBDA f : f.kind # "empty" /\ ~f.delete)

\* the model instance of a form: its cleaned data without the DELETE key
InstanceOf(model, form) ==
    PyInstance(model, TRUE, [k \in DOMAIN form.cleaned \ {"DELETE"} |-> form.cleaned[k]])

\* C16: clean() returns [] for empty input; otherwise, when it returns, it
\* returns one instance per submitted form that is neither empty nor marked
\* DELETE, in form order, built from the cleaned data without DELETE; it
\* returns when every such form is valid, so deleting every row gives [].
C16_CleanKeepsSubmittedForms ==
    fclean.op = "clean" =>
        /\ fvalue = NotSubmitted => fclean.exc = NoExc /\ fclean.value = << >>
        /\ (fvalue # NotSubmitted /\ fclean.exc = NoExc) =>
              /\ Len(fclean.value) = Len(KeptForms(fvalue.items))
              /\ \A i \in 1..Len(fclean.value) :
                    fclean.value[i] = InstanceOf(ffield.model, KeptForms(fvalue.items)[i])
        /\ (fvalue # NotSubmitted /\ \A i \in 1..Len(KeptForms(fvalue.items)) :
                                        KeptForms(fvalue.items)[i].kind = "valid") =>
              fclean.exc = NoExc

\* C16 witness: of <deleted, valid, empty> clean() returned the one instance
\* of the second form
C16_Witness ==
    /\ fclean.op = "clean" /\ fclean.exc = NoExc
    /\ fvalue # NotSubmitted /\ Len(fvalue.items) = 3
    /\ fvalue.items[1].delete /\ fvalue.items[1].kind = "valid"
    /\ fvalue.items[2].kind = "valid" /\ ~fvalue.items[2].delete
    /\ fvalue.items[3].kind = "empty"
    /\ fclean.value = <<InstanceOf(ffield.model, fvalue.items[2])>>

\* the forms submitted that count towards the maximum
SubmittedCount(forms) == Len(forms) - Cardinality({i \in 1..Len(forms) : forms[i].delete})

\* C17: clean() raises ValidationError with every error of the formset and
\* returns no instance when a submitted non-empty form is invalid or more
\* forms are submitted than the maximum size ('Please submit at most N
\* forms.'); it never returns more instances than the maximum.
C17_InvalidOrTooManyRejected ==
    (fclean.op = "clean" /\ fvalue # NotSubmitted) =>
        /\ (\E i \in 1..Len(fvalue.items) :
               fvalue.items[i].kind = "invalid" /\ ~fvalue.items[i].delete) =>
              /\ fclean.exc = "ValidationError" /\ fclean.value = << >>
              /\ fclean.errors.form_errors = FormsetErrors(ffield.formset, fvalue.items)
        /\ SubmittedCount(fvalue.items) > ffield.formset.max_num =>
              /\ fclean.exc = "ValidationError" /\ fclean.value = << >>
              /\ fclean.errors.non_form_errors = <<TooManyForms(ffield.formset.max_num)>>
        /\ Len(fclean.value) <= ffield.formset.max_num



(***************************************************************************)
(* Properties of the system check of the indexes                           *)
(***************************************************************************)
\* the messages of the run whose obj is the index
MessagesOf(errors, index_obj) == SelectSeq(errors, LAMBDA e : e.obj = index_obj)

\* C18: with one database whose server has no search-index support, the
\* check over a model that declares a SearchIndex (or a VectorSearchIndex)
\* and may migrate there returns exactly one message for that index: the
\* Warning W001 of its class.
C18_UnsupportedServerWarns ==
    (/\ klast.op = "run_checks"
     /\ kdatabases # NoDatabases /\ Len(kdatabases.items) = 1
     /\ ~kconnections[kdatabases.items[1]].supports_atlas_search) =>
        \A m \in 1..Len(kmodels) :
            AllowMigrateModel(krouter, kdatabases.items[1], kmodels[m]) =>
                \A i \in 1..Len(kmodels[m].indexes) :
                    MessagesOf(klast.errors, IndexObj(kmodels[m], i)) =
                        <<CheckWarning(kmodels[m].indexes[i].cls, "W001",
                                       IndexObj(kmodels[m], i))>>

\* the largest number of indexes of a model
MostIndexes(models) ==
    CHOOSE n \in 0..MaxIndexes :
        /\ \A m \in 1..Len(models) : Len(models[m].indexes) <= n
        /\ \E m \in 1..Len(models) : Len(models[m].indexes) = n

\* the k-th (model, database, index) in model, then database, then index order
TripleAt(k, nd, ni) ==
    [m |-> ((k - 1) \div (nd * ni)) + 1,
     d |-> (((k - 1) \div ni) % nd) + 1,
     i |-> ((k - 1) % ni) + 1]

\* what the index of the triple reports: check(model, connection) of a
\* VectorSearchIndex of a model that may migrate on the database
ReportOf(t, models, dbs, router, connections) ==
    IF /\ t.i <= Len(models[t.m].indexes)
       /\ models[t.m].indexes[t.i].cls = "VectorSearchIndex"
       /\ <<dbs[t.d], models[t.m].name>> \notin router
    THEN IndexCheck(models[t.m].indexes[t.i], IndexObj(models[t.m], t.i), connections[dbs[t.d]])
    ELSE << >>

RECURSIVE ReportsFrom(_, _, _, _, _, _, _)
\* the reports of the triples k..n, one after the other
ReportsFrom(k, n, ni, models, dbs, router, connections) ==
    IF k > n THEN << >>
    ELSE ReportOf(TripleAt(k, Len(dbs), ni), models, dbs, router, connections)
         \o ReportsFrom(k + 1, n, ni, models, dbs, router, connections)

Supported(query) == CheckQuery(query) = NoError

\* the document decoded for the columns: the value of each column, taken
\* from the related object when the column is of another collection
Decoded(entity, collection_name, columns) ==
    [k \in 1..Len(columns) |->
        IF columns[k].alias \in {PyNone, PyStr(collection_name)}
        THEN IF columns[k].name \in DOMAIN entity THEN entity[columns[k].name] ELSE PyNone
        ELSE IF columns[k].alias.s \in DOMAIN entity
                /\ columns[k].name \in DOMAIN entity[columns[k].alias.s]
        THEN entity[columns[k].alias.s][columns[k].name]
        ELSE PyNone]

RECURSIVE Flattened(_)
\* the chunks one after the other
Flattened(chunks) ==
    IF chunks = << >> THEN << >> ELSE Head(chunks) \o Flattened(Tail(chunks))

\* the chunks are the decoded documents in order, every chunk but the last
\* of chunk_size documents and the last of fewer
ChunksOf(chunks, rows, chunk_size, collection_name, columns) ==
    /\ Flattened(chunks) = [i \in 1..Len(rows) |-> Decoded(rows[i], collection_name, columns)]
    /\ Len(chunks) >= 1
    /\ \A c \in 1..(Len(chunks) - 1) : Len(chunks[c]) = chunk_size
    /\ Len(chunks[Len(chunks)]) < chunk_size

\* C20: for a supported query execute_sql returns [count] when the only
\* annotation is Count('*') under '__count'; when build_query raises
\* EmptyResultSet, an empty iterator for MULTI and None otherwise, and no
\* cursor is opened; for SINGLE None if the cursor has no document and else
\* the decoded first document; for MULTI the chunks of decoded documents,
\* read fully into a list unless chunked_fetch is set, when nothing is read
\* until the result is iterated and the same chunks are yielded.
C20_ExecuteSqlResults ==
    /\ (slast.op = "execute_sql" /\ Supported(squery)) =>
          /\ slast.exc = NoError
          /\ IF squery.annotations = ("__count" :> "Count")
             THEN /\ slast.value =
                        PyList(<<PyInt(IF squery.where = "EmptyResultSet" THEN 0
                                       ELSE Len(srows))>>)
                  /\ slast.opened = 0
             ELSE IF squery.where = "EmptyResultSet"
             THEN /\ slast.value = IF slast.result_type = "multi" THEN PyIter(<< >>)
                                   ELSE PyNone
                  /\ slast.opened = 0
             ELSE /\ slast.opened = 1
                  /\ slast.result_type = "single" =>
                        slast.value = IF srows = << >> THEN PyNone
                                      ELSE PyList(Decoded(srows[1], squery.collection,
                                                          slast.columns))
                  /\ (slast.result_type = "multi" /\ ~slast.chunked_fetch) =>
                        /\ slast.value.t = "list"
                        /\ ChunksOf(slast.value.items, srows, slast.chunk_size,
                                    squery.collection, slast.columns)
                        /\ slast.read = Len(srows)
                  /\ (slast.result_type = "multi" /\ slast.chunked_fetch) =>
                        slast.value = PyGenerator /\ slast.read = 0
    /\ (sgen.active /\ sgen.done) =>
          ChunksOf(sgen.yielded, srows, sgen.chunk_size, squery.collection, sgen.columns)

\* C20 witness: MULTI without chunked_fetch over three documents in chunks
\* of two returned the list of a full chunk and a chunk of one
C20_Witness ==
    /\ slast.op = "execute_sql" /\ slast.result_type = "multi" /\ ~slast.chunked_fetch
    /\ slast.chunk_size = 2 /\ Len(srows) = 3 /\ Len(slast.columns) = 3
    /\ slast.value.t = "list" /\ Len(slast.value.items) = 2
    /\ Len(slast.value.items[1]) = 2 /\ Len(slast.value.items[2]) = 1
    /\ slast.read = 3



\* the decoded rows of the cursor, in cursor order
DecodedRows(columns) ==
    [i \in 1..Len(srows) |-> Decoded(srows[i], squery.collection, columns)]

\* the chunks are the start of a cut of the decoded rows into chunks of
\* chunk_size rows
ChunkPrefix(chunks, chunk_size, columns) ==
    /\ Len(Flattened(chunks)) <= Len(srows)
    /\ Flattened(chunks) = SubSeq(DecodedRows(columns), 1, Len(Flattened(chunks)))
    /\ \A c \in 1..(Len(chunks) - 1) : Len(chunks[c]) = chunk_size

\* the chunks are all of the cursor: every row, at least one chunk, the last
\* one of 0 to chunk_size - 1 rows
ChunksComplete(chunks, chunk_size, columns) ==
    /\ ChunkPrefix(chunks, chunk_size, columns)
    /\ Flattened(chunks) = DecodedRows(columns)
    /\ Len(chunks) >= 1
    /\ Len(chunks[Len(chunks)]) \in 0..(chunk_size - 1)

\* C27: the concatenation of the chunks cursor_iter yields is the sequence
\* of decoded cursor rows in cursor order, every chunk except the last has
\* exactly chunk_size rows, the last has between 0 and chunk_size - 1 rows,
\* and at least one chunk is yielded even for an empty cursor; non-chunked
\* execute_sql returns exactly this list of chunks.
C27_CursorIterPreserves ==
    /\ sgen.active =>
          /\ ChunkPrefix(sgen.yielded, sgen.chunk_size, sgen.columns)
          /\ sgen.done => ChunksComplete(sgen.yielded, sgen.chunk_size, sgen.columns)
    /\ (slast.op = "execute_sql" /\ slast.exc = NoError /\ slast.value.t = "list"
            /\ slast.result_type # "single"
            /\ squery.annotations # ("__count" :> "Count")) =>
          /\ ChunksComplete(slast.value.items, slast.chunk_size, slast.columns)
          /\ slast.value.items = CursorIter(srows, 1, << >>, slast.chunk_size,
                                            squery.collection, slast.columns, << >>)

\* C27 witness: the generator over two rows in chunks of two was iterated to
\* its end and yielded a full chunk and an empty one
C27_Witness ==
    /\ sgen.active /\ sgen.done /\ sgen.chunk_size = 2 /\ Len(srows) = 2
    /\ Len(sgen.yielded) = 2 /\ sgen.yielded[2] = << >>


(***************************************************************************)
(* Properties of get_count and has_results                                 *)
(***************************************************************************)
\* the number of documents of the collection that the filter matches
Matching(where) ==
    IF where = "EmptyResultSet" THEN 0
    ELSE IF where = "FullResultSet" THEN Cardinality(colls["c"])
    ELSE Cardinality({d \in colls["c"] : d["foo"] = PyInt(1)})

\* max(0, min(high, n) - low)
SliceCount(n, low, high) ==
    LET upto == IF high # NoMark /\ high.i < n THEN high.i ELSE n
    IN  IF upto > low THEN upto - low ELSE 0

\* C23: get_count passes skip=low_mark only when low_mark > 0, limit=1 when
\* check_exists and otherwise limit=high_mark-low_mark when high_mark is set;
\* for N documents matching the filters and a slice [low:high], count()
\* returns max(0, min(high, N) - low), 0 for a filter that is an
\* EmptyResultSet, and has_results() is True iff a matching document remains
\* after the skip.
C23_CountOfSlice ==
    /\ clast.op = "count" =>
          /\ clast.exc = NoError
          /\ clast.kwargs.skip = IF clast.low > 0 THEN PyInt(clast.low) ELSE PyNone
          /\ clast.kwargs.limit = IF clast.high # NoMark THEN PyInt(clast.high.i - clast.low)
                                  ELSE PyNone
          /\ clast.value = PyInt(SliceCount(Matching(clast.where), clast.low, clast.high))
    /\ clast.op = "exists" =>
          /\ clast.kwargs.limit = PyInt(1)
          /\ clast.value = PyBool(Matching(clast.where) > clast.low)



(***************************************************************************)
(* Properties of _get_ordering                                             *)
(***************************************************************************)
\* the ordering list of the query
OrderingList == EffectiveOrdering(oquery)

\* the entry is "?" or an expression that compiles to a dict
Unsortable(order) ==
    \/ order = OrderName(<<"?">>)
    \/ order.t = "Func"
    \/ order.t = "OrderBy" /\ order.expression.t = "Func"

\* the field an entry names
NamedField(order) ==
    CASE order.t = "name" -> order.chars[Len(order.chars)]
      [] order.t = "OrderBy" -> order.expression.name
      [] OTHER -> order.name

\* the column of the field an entry names, without '$'
SortColumn(order) ==
    CASE NamedField(order) \in {"pk", "id"} -> <<"_id">>
      [] NamedField(order) = "simple__someint" -> <<"simple.someint">>
      [] OTHER -> <<NamedField(order)>>

\* the entry asks for descending order
MarkedDescending(order) ==
    CASE order.t = "name" -> Head(order.chars) = "-"
      [] order.t = "OrderBy" -> order.descending
      [] OTHER -> FALSE

\* the first entry of the ordering list with this column
FirstOccurrence(column) ==
    CHOOSE i \in 1..Len(OrderingList) :
        /\ SortColumn(OrderingList[i]) = column
        /\ \A j \in 1..(i - 1) : SortColumn(OrderingList[j]) # column

\* C25: for any ordering list the result of _get_ordering contains each
\* column at most once, with the direction of its first occurrence, in the
\* order of first occurrences, and without the leading '$'; an entry '?' or
\* an expression that compiles to a dict raises NotSupportedError instead.
C25_OrderingColumnsOnce ==
    (olast.op = "_get_ordering" /\ OrderingList # << >>) =>
        IF \E i \in 1..Len(OrderingList) : Unsortable(OrderingList[i])
        THEN olast.exc.type = "NotSupportedError" /\ olast.value = PyNone
        ELSE /\ olast.exc = NoError
             /\ olast.value.t = "list"
             /\ \A a, b \in 1..Len(olast.value.items) :
                    a # b => olast.value.items[a].column # olast.value.items[b].column
             /\ {olast.value.items[k].column : k \in 1..Len(olast.value.items)}
                    = {SortColumn(OrderingList[i]) : i \in 1..Len(OrderingList)}
             /\ \A k \in 1..Len(olast.value.items) :
                    /\ Head(olast.value.items[k].column) # "$"
                    /\ olast.value.items[k].ascending =
                          (MarkedDescending(OrderingList[FirstOccurrence(
                               olast.value.items[k].column)]) # oquery.standard_ordering)
             /\ \A a, b \in 1..Len(olast.value.items) :
                    a < b => FirstOccurrence(olast.value.items[a].column)
                                 < FirstOccurrence(olast.value.items[b].column)

\* C25 witness: an ordering of three entries, two of them of one column in
\* opposite directions, gave a sort of two columns
C25_Witness ==
    /\ olast.op = "_get_ordering" /\ olast.exc = NoError
    /\ Len(OrderingList) = 3 /\ olast.value.t = "list" /\ Len(olast.value.items) = 2
    /\ \E i, j \in 1..3 :
          /\ i < j
          /\ SortColumn(OrderingList[i]) = SortColumn(OrderingList[j])
          /\ MarkedDescending(OrderingList[i]) # MarkedDescending(OrderingList[j])

\* what _get_ordering returns for the same query reversed
ReversedOrdering == GetOrdering([oquery EXCEPT !.standard_ordering = ~@])

\* C26: _get_ordering of the reversed query returns the same columns in the
\* same order with every ascending flag negated (and raises when the other
\* raises); when no ordering is defined it returns the boolean
\* standard_ordering itself instead of a list.
C26_ReversedInverts ==
    olast.op = "_get_ordering" =>
        IF OrderingList = << >>
        THEN olast.exc = NoError /\ olast.value = PyBool(oquery.standard_ordering)
        ELSE /\ ReversedOrdering.exc = olast.exc
             /\ olast.exc = NoError =>
                   /\ olast.value.t = "list" /\ ReversedOrdering.value.t = "list"
                   /\ Len(ReversedOrdering.value.items) = Len(olast.value.items)
                   /\ \A k \in 1..Len(olast.value.items) :
                         /\ ReversedOrdering.value.items[k].column
                               = olast.value.items[k].column
                         /\ ReversedOrdering.value.items[k].ascending
                               = ~olast.value.items[k].ascending

\* C26 witness: a reversed query ordered by a string and by an expression of
\* different columns gave a sort of both
C26_Witness ==
    /\ olast.op = "_get_ordering" /\ olast.exc = NoError /\ ~oquery.standard_ordering
    /\ olast.value.t = "list" /\ Len(olast.value.items) = 2
    /\ \E i, j \in 1..Len(OrderingList) :
          OrderingList[i].t = "name" /\ OrderingList[j].t = "OrderBy"



(***************************************************************************)
(* Properties of key_transform                                             *)
(***************************************************************************)
\* the KeyTransforms of the lookup path
PathKeys == ChainOfPath(lroot, lpath).keys

\* the keys at the start of the chain that name embedded models
EmbeddedKeys ==
    CHOOSE n \in 0..Len(PathKeys) :
        /\ \A k \in 1..n : IsEmbeddedModelField(PathKeys[k].ref_field)
        /\ n < Len(PathKeys) => ~IsEmbeddedModelField(PathKeys[n + 1].ref_field)

\* the keys of the dotted path: those that name embedded models and the
\* first that names a plain field
DottedKeys ==
    [k \in 1..(IF EmbeddedKeys < Len(PathKeys) THEN EmbeddedKeys + 1 ELSE EmbeddedKeys) |->
        PathKeys[k].key_name]

\* the keys that remain
RemainingKeys ==
    [k \in 1..(Len(PathKeys) - Len(DottedKeys)) |-> PathKeys[Len(DottedKeys) + k].key_name]

\* a canonical decimal index: digits 0-9 only, no leading zero
CanonicalIndex(key) ==
    /\ \A k \in 1..Len(Chars(key)) : \E d \in 1..10 : DecimalDigits[d] = Chars(key)[k]
    /\ Len(Chars(key)) = 1 \/ Head(Chars(key)) # "0"

RECURSIVE WrappedKeys(_, _, _)
\* the first n remaining keys wrapped in order around the dotted path
WrappedKeys(inner, keys, n) ==
    IF n = 0 THEN inner
    ELSE LET e == WrappedKeys(inner, keys, n - 1)
         IN  IF CanonicalIndex(keys[n])
             THEN MqlCond(MqlIsArray(e),
                          MqlArrayElemAt(e, IntOfChars(Chars(keys[n]), 1, 0)),
                          MqlGetField(e, keys[n]))
             ELSE MqlGetField(e, keys[n])

\* C28: for every chain of key transforms the field accepts, key_transform
\* builds the dotted path of the keys that name embedded models followed by
\* the first key that names a plain field, and wraps each remaining key in
\* order in $getField, a canonical decimal index in a $cond with
\* $arrayElemAt, a key such as '001' always as a field name; also for a
\* chain whose last key is itself an embedded model field.
C28_KeyTransformPath ==
    llast.op = "as_mql" =>
        /\ llast.exc = NoExc
        /\ llast.value = WrappedKeys(MqlPath(<<lpath[1]>> \o DottedKeys), RemainingKeys,
                                     Len(RemainingKeys))



(***************************************************************************)
(* Properties of the widgets of the formset fields                         *)
(***************************************************************************)
\* the submitted keys that start with the name of the field
EntriesOf(name) ==
    { key \in DOMAIN ddata :
        /\ Len(Letters(key)) >= Len(Letters(name))
        /\ \A k \in 1..Len(Letters(name)) : Letters(key)[k] = Letters(name)[k] }

\* C29: MultipleEmbeddedModelWidget.value_omitted_from_data(data, files,
\* name) returns True exactly when no key of the submitted data starts with
\* the field's name, and False when at least one entry of the field was
\* submitted.
C29_OmittedIffNoEntry ==
    (dlast.op = "value_omitted_from_data" /\ dwidget = "multiple_embedded_model") =>
        (dlast.value <=> EntriesOf(dname) = {})

\* the submitted keys of the formset of the field: 'N-...'
OwnEntries(name) ==
    { key \in DOMAIN ddata :
        \E rest \in 0..Len(Letters(key)) :
            /\ Len(Letters(key)) = Len(Letters(name)) + 1 + rest
            /\ \A k \in 1..Len(Letters(name)) : Letters(key)[k] = Letters(name)[k]
            /\ Letters(key)[Len(Letters(name)) + 1] = "-" }

\* C30: value_from_datadict of both widgets returns, for a field named N,
\* exactly the submitted entries of N's own formset (keys 'N-...'); the
\* entries of another field whose name merely begins with N are never
\* included.
C30_OnlyOwnEntries ==
    dlast.op = "value_from_datadict" =>
        /\ DOMAIN dlast.value = OwnEntries(dname)
        /\ \A key \in DOMAIN dlast.value : dlast.value[key] = ddata[key]



vars == <<wvars, evars, now, ivars, cvars, fvars, lvars, mvars, gvars, kvars, svars, ovars, dvars>>

InitWrapper == WrapperInit /\ EmbeddedInit /\ ClockInit /\ InsertIdle /\ CompilerIdle /\ FieldIdle /\ LookupIdle /\ MovieIdle /\ FormIdle /\ ChecksIdle /\ ExecuteIdle /\ OrderingIdle /\ WidgetIdle

SpecWrapper == InitWrapper /\ [][WrapperNext]_vars

InitEmbedded == EmbeddedInit /\ ClockInit /\ WrapperIdle /\ InsertIdle /\ CompilerIdle /\ FieldIdle /\ LookupIdle /\ MovieIdle /\ FormIdle /\ ChecksIdle /\ ExecuteIdle /\ OrderingIdle /\ WidgetIdle

SpecEmbedded == InitEmbedded /\ [][EmbeddedNext]_vars

InitInsert == InsertInit /\ ClockInit /\ WrapperIdle /\ EmbeddedInit /\ CompilerIdle /\ FieldIdle /\ LookupIdle /\ MovieIdle /\ FormIdle /\ ChecksIdle /\ ExecuteIdle /\ OrderingIdle /\ WidgetIdle

SpecInsert == InitInsert /\ [][InsertNext]_vars

InitQuery == SelectInit /\ ClockInit /\ WrapperIdle /\ EmbeddedInit /\ InsertIdle /\ FieldIdle /\ LookupIdle /\ MovieIdle /\ FormIdle /\ ChecksIdle /\ ExecuteIdle /\ OrderingIdle /\ WidgetIdle

SpecQuery == InitQuery /\ [][QueryNext]_vars

InitUpdate == UpdateInit /\ ClockInit /\ WrapperIdle /\ EmbeddedInit /\ InsertIdle /\ FieldIdle /\ LookupIdle /\ MovieIdle /\ FormIdle /\ ChecksIdle /\ ExecuteIdle /\ OrderingIdle /\ WidgetIdle

SpecUpdate == InitUpdate /\ [][UpdateNext]_vars

InitParent == EmbeddedInit /\ ClockInit /\ WrapperIdle /\ InsertIdle /\ CompilerIdle /\ FieldIdle /\ LookupIdle /\ MovieIdle /\ FormIdle /\ ChecksIdle /\ ExecuteIdle /\ OrderingIdle /\ WidgetIdle

SpecParent == InitParent /\ [][ParentNext]_vars

InitField == FieldInit /\ ClockInit /\ WrapperIdle /\ EmbeddedInit /\ InsertIdle /\ CompilerIdle /\ LookupIdle /\ MovieIdle /\ FormIdle /\ ChecksIdle /\ ExecuteIdle /\ OrderingIdle /\ WidgetIdle

SpecField == InitField /\ [][FieldNext]_vars

InitArray == EmbeddedInit /\ ClockInit /\ WrapperIdle /\ InsertIdle /\ CompilerIdle /\ FieldIdle /\ LookupIdle /\ MovieIdle /\ FormIdle /\ ChecksIdle /\ ExecuteIdle /\ OrderingIdle /\ WidgetIdle

SpecArray == InitArray /\ [][ArrayNext]_vars

InitLookup == LookupInit /\ ClockInit /\ WrapperIdle /\ EmbeddedInit /\ InsertIdle /\ CompilerIdle /\ FieldIdle /\ MovieIdle /\ FormIdle /\ ChecksIdle /\ ExecuteIdle /\ OrderingIdle /\ WidgetIdle

SpecLookup == InitLookup /\ [][LookupNext]_vars

InitMovie == MovieInit /\ ClockInit /\ WrapperIdle /\ EmbeddedInit /\ InsertIdle /\ CompilerIdle /\ FieldIdle /\ LookupIdle /\ FormIdle /\ ChecksIdle /\ ExecuteIdle /\ OrderingIdle /\ WidgetIdle

SpecMovie == InitMovie /\ [][ArrayFilterNext]_vars

InitForm == FormInit /\ ClockInit /\ WrapperIdle /\ EmbeddedInit /\ InsertIdle /\ CompilerIdle /\ FieldIdle /\ LookupIdle /\ MovieIdle /\ ChecksIdle /\ ExecuteIdle /\ OrderingIdle /\ WidgetIdle

SpecForm == InitForm /\ [][FormNext]_vars

InitChecks == ChecksInit /\ ClockInit /\ WrapperIdle /\ EmbeddedInit /\ InsertIdle /\ CompilerIdle /\ FieldIdle /\ LookupIdle /\ MovieIdle /\ FormIdle /\ ExecuteIdle /\ OrderingIdle /\ WidgetIdle

SpecChecks == InitChecks /\ [][ChecksNext]_vars

InitExecute == ExecuteInit /\ ClockInit /\ WrapperIdle /\ EmbeddedInit /\ InsertIdle /\ CompilerIdle /\ FieldIdle /\ LookupIdle /\ MovieIdle /\ FormIdle /\ ChecksIdle /\ OrderingIdle /\ WidgetIdle

SpecExecute == InitExecute /\ [][ExecuteNext]_vars

InitCount == CountInit /\ ClockInit /\ WrapperIdle /\ EmbeddedInit /\ InsertIdle /\ FieldIdle /\ LookupIdle /\ MovieIdle /\ FormIdle /\ ChecksIdle /\ ExecuteIdle /\ OrderingIdle /\ WidgetIdle

SpecCount == InitCount /\ [][CountNext]_vars

InitOrdering == OrderingInit /\ ClockInit /\ WrapperIdle /\ EmbeddedInit /\ InsertIdle /\ CompilerIdle /\ FieldIdle /\ LookupIdle /\ MovieIdle /\ FormIdle /\ ChecksIdle /\ ExecuteIdle /\ WidgetIdle

SpecOrdering == InitOrdering /\ [][OrderingNext]_vars

InitKeys == KeysInit /\ ClockInit /\ WrapperIdle /\ EmbeddedInit /\ InsertIdle /\ CompilerIdle /\ FieldIdle /\ MovieIdle /\ FormIdle /\ ChecksIdle /\ ExecuteIdle /\ OrderingIdle /\ WidgetIdle

SpecKeys == InitKeys /\ [][KeysNext]_vars

InitWidget == WidgetInit /\ ClockInit /\ WrapperIdle /\ EmbeddedInit /\ InsertIdle /\ CompilerIdle /\ FieldIdle /\ LookupIdle /\ MovieIdle /\ FormIdle /\ ChecksIdle /\ ExecuteIdle /\ OrderingIdle

SpecWidget == InitWidget /\ [][WidgetNext]_vars

====
